---- MODULE Spec2Model ----
(***************************************************************************)
(* Billing service: payments, refunds, invoices, subscriptions, proration  *)
(* and the Stripe webhook entry point, as state machines over the          *)
(* repositories' contents.                                                 *)
(*                                                                         *)
(* Repositories (PaymentRepository, InvoiceRepository,                     *)
(* SubscriptionRepository, PlanRepository, CustomerRepository) are keyed   *)
(* stores: findById reads a row, create appends a row, update(id, partial) *)
(* overwrites the named fields of the row.  Rows are kept in sequences and *)
(* a row's id is its index.  Money amounts are integers (the results of    *)
(* calculateProration are in cents) and dates are whole days counted from  *)
(* 2024-01-01 (day 0).                                                     *)
(***************************************************************************)
EXTENDS Integers, Sequences, FiniteSets, TLC

\* ------------------------------------------------------------------ bounds
MaxPayments == 1
MaxInvoices == 1
MaxLineItems == 1
MaxIntents == 2
MaxPaid == 40
MaxSubscriptions == 1
MaxTicks == 2
MaxRefunds == 2
MaxTasks == 2
MaxTrialSubs == 3
MaxPages == 2
MaxItems == 2

VARIABLES
    payments,       \* PaymentRepository rows
    refunds,        \* PaymentRepository refund rows
    invoices,       \* InvoiceRepository rows
    intents,        \* number of payment intents the gateway has issued
    subscriptions,  \* SubscriptionRepository rows
    now,            \* the clock, in days
    ticks,          \* how often the clock has advanced
    tasks,          \* in-flight refundPayment calls (position and locals)
    sync,           \* the RampSyncService.fullSync call in progress (position and locals)
    lastCall        \* the last call handled: operation, arguments, outcome

vars == <<payments, refunds, invoices, intents, subscriptions, now, ticks, tasks, sync, lastCall>>

\* ------------------------------------------------------------- collaborators
\* CustomerRepository rows: one customer linked to the payment gateway, one not.
Customers == {"cus_stripe", "cus_local"}
MissingCustomer == "cus_missing"

HasStripeCustomerId(c) == c = "cus_stripe"

CustomerExists(c) == c \in Customers

\* What the gateway can report for a payment intent.
StripeIntentStatuses ==
    {"succeeded", "processing", "requires_action", "canceled", "requires_capture"}

Amounts == {10, 20}

\* The record of a handled call: the operation, the row it named, its amount and
\* string arguments, "ok" or the message of the Error thrown, the gateway calls it
\* made in order, and the numbers it returned.
Call(op, id, amount, arg, outcome, stripe, value) ==
    [op |-> op, id |-> id, amount |-> amount, arg |-> arg,
     outcome |-> outcome, stripe |-> stripe, value |-> value]

NoCall == Call("none", 0, 0, "", "ok", <<>>, <<>>)

Max(a, b) == IF a >= b THEN a ELSE b

Min(a, b) == IF a <= b THEN a ELSE b

RECURSIVE SumSeq(_)
SumSeq(s) == IF s = <<>> THEN 0 ELSE Head(s) + SumSeq(Tail(s))

\* repository.update(id, partial): the row with the partial's fields overwritten.
RepoUpdate(rows, id, partial) ==
    [rows EXCEPT ![id] = [f \in DOMAIN rows[id] |->
        IF f \in DOMAIN partial THEN partial[f] ELSE rows[id][f]]]

\* ----------------------------------------------------------- PaymentService
mapStripePaymentStatus(stripeStatus) ==
    CASE stripeStatus = "succeeded" -> "succeeded"
      [] stripeStatus = "processing" -> "processing"
      [] stripeStatus \in {"requires_payment_method", "requires_confirmation",
                           "requires_action"} -> "pending"
      [] stripeStatus = "canceled" -> "canceled"
      [] OTHER -> "failed"

\* A variant that marks the invoice paid whatever is still due.
updateInvoicePaymentAlwaysPaid(invs, invoiceId, amount) ==
    IF invoiceId \notin DOMAIN invs
    THEN invs
    ELSE LET invoice == invs[invoiceId]
             newAmountPaid == invoice.amountPaid + amount
             newAmountDue == Max(0, invoice.total - newAmountPaid)
         IN RepoUpdate(invs, invoiceId,
                [amountPaid |-> newAmountPaid, amountDue |-> newAmountDue,
                 status |-> "paid"])

\* updateInvoicePayment(invoiceId, amount): the invoice rows afterwards.
updateInvoicePayment(invs, invoiceId, amount) ==
    IF invoiceId \notin DOMAIN invs
    THEN invs
    ELSE LET invoice == invs[invoiceId]
             newAmountPaid == invoice.amountPaid + amount
             newAmountDue == Max(0, invoice.total - newAmountPaid)
             newStatus == IF newAmountDue = 0 THEN "paid" ELSE invoice.status
         IN RepoUpdate(invs, invoiceId,
                [amountPaid |-> newAmountPaid, amountDue |-> newAmountDue,
                 status |-> newStatus])

\* The cap that keeps amountPaid finite in the model.
PaidWithinBound(invoiceId, amount) ==
    invoiceId \in DOMAIN invoices => invoices[invoiceId].amountPaid + amount <= MaxPaid

NewPayment(customerId, invoiceId, intentId, amount, status) ==
    [customerId |-> customerId, invoiceId |-> invoiceId,
     stripePaymentIntentId |-> intentId, amount |-> amount, status |-> status,
     refundedAmount |-> 0]

UnchangedSubs == UNCHANGED <<subscriptions, now, ticks, tasks, sync>>

CreatePayment(customerId, invoiceId, amount) ==
    /\ Len(payments) < MaxPayments
    /\ PaidWithinBound(invoiceId, amount)
    /\ UnchangedSubs
    /\ \/ /\ ~CustomerExists(customerId)
          /\ lastCall' = Call("createPayment", 0, amount, customerId,
                              "Customer not found", <<>>, <<>>)
          /\ UNCHANGED <<payments, refunds, invoices, intents>>
       \/ /\ CustomerExists(customerId)
          /\ HasStripeCustomerId(customerId)
          /\ lastCall' = Call("createPayment", 0, amount, customerId,
                              "GatewayError", <<"createPaymentIntent">>, <<>>)
          /\ UNCHANGED <<payments, refunds, invoices, intents>>
       \/ /\ CustomerExists(customerId)
          /\ HasStripeCustomerId(customerId)
          /\ intents < MaxIntents
          /\ \E stripeStatus \in StripeIntentStatuses :
               LET status == mapStripePaymentStatus(stripeStatus)
               IN /\ intents' = intents + 1
                  /\ payments' = Append(payments,
                        NewPayment(customerId, invoiceId, intents + 1, amount, status))
                  /\ invoices' = IF invoiceId # 0 /\ status = "succeeded"
                                 THEN updateInvoicePayment(invoices, invoiceId, amount)
                                 ELSE invoices
                  /\ lastCall' = Call("createPayment", Len(payments) + 1, amount,
                                      customerId, "ok", <<"createPaymentIntent">>, <<>>)
          /\ UNCHANGED refunds
       \/ /\ CustomerExists(customerId)
          /\ ~HasStripeCustomerId(customerId)
          /\ payments' = Append(payments,
                NewPayment(customerId, invoiceId, 0, amount, "pending"))
          /\ lastCall' = Call("createPayment", Len(payments) + 1, amount,
                              customerId, "ok", <<>>, <<>>)
          /\ UNCHANGED <<refunds, invoices, intents>>

PaymentFound(paymentId) == paymentId \in DOMAIN payments

ConfirmPayment(paymentId) ==
    /\ UnchangedSubs
    /\ UNCHANGED <<refunds, intents>>
    /\ \/ /\ ~PaymentFound(paymentId)
          /\ lastCall' = Call("confirmPayment", paymentId, 0, "",
                              "Payment not found", <<>>, <<>>)
          /\ UNCHANGED <<payments, invoices>>
       \/ /\ PaymentFound(paymentId)
          /\ payments[paymentId].status \notin {"pending", "processing"}
          /\ lastCall' = Call("confirmPayment", paymentId, 0, "",
                              "Payment cannot be confirmed in its current state", <<>>, <<>>)
          /\ UNCHANGED <<payments, invoices>>
       \/ /\ PaymentFound(paymentId)
          /\ payments[paymentId].status \in {"pending", "processing"}
          /\ payments[paymentId].stripePaymentIntentId = 0
          /\ lastCall' = Call("confirmPayment", paymentId, 0, "",
                              "No Stripe payment intent associated with this payment",
                              <<>>, <<>>)
          /\ UNCHANGED <<payments, invoices>>
       \/ /\ PaymentFound(paymentId)
          /\ payments[paymentId].status \in {"pending", "processing"}
          /\ payments[paymentId].stripePaymentIntentId # 0
          /\ lastCall' = Call("confirmPayment", paymentId, 0, "",
                              "GatewayError", <<"confirmPaymentIntent">>, <<>>)
          /\ UNCHANGED <<payments, invoices>>
       \/ /\ PaymentFound(paymentId)
          /\ payments[paymentId].status \in {"pending", "processing"}
          /\ payments[paymentId].stripePaymentIntentId # 0
          /\ \E stripeStatus \in StripeIntentStatuses :
               LET payment == payments[paymentId]
                   status == mapStripePaymentStatus(stripeStatus)
               IN /\ PaidWithinBound(payment.invoiceId, payment.amount)
                  /\ payments' = RepoUpdate(payments, paymentId, [status |-> status])
                  /\ invoices' = IF status = "succeeded" /\ payment.invoiceId # 0
                                 THEN updateInvoicePayment(invoices, payment.invoiceId,
                                                           payment.amount)
                                 ELSE invoices
                  /\ lastCall' = Call("confirmPayment", paymentId, 0, "", "ok",
                                      <<"confirmPaymentIntent">>, <<>>)

\* amount = 0 stands for the optional argument left out.
CapturePayment(paymentId, amount) ==
    /\ UnchangedSubs
    /\ UNCHANGED <<refunds, intents>>
    /\ \/ /\ ~PaymentFound(paymentId)
          /\ lastCall' = Call("capturePayment", paymentId, amount, "",
                              "Payment not found", <<>>, <<>>)
          /\ UNCHANGED <<payments, invoices>>
       \/ /\ PaymentFound(paymentId)
          /\ payments[paymentId].stripePaymentIntentId = 0
          /\ lastCall' = Call("capturePayment", paymentId, amount, "",
                              "No Stripe payment intent associated with this payment",
                              <<>>, <<>>)
          /\ UNCHANGED <<payments, invoices>>
       \/ /\ PaymentFound(paymentId)
          /\ payments[paymentId].stripePaymentIntentId # 0
          /\ lastCall' = Call("capturePayment", paymentId, amount, "",
                              "GatewayError", <<"capturePaymentIntent">>, <<>>)
          /\ UNCHANGED <<payments, invoices>>
       \/ /\ PaymentFound(paymentId)
          /\ payments[paymentId].stripePaymentIntentId # 0
          /\ LET payment == payments[paymentId]
                 capturedAmount == IF amount # 0 THEN amount ELSE payment.amount
             IN /\ PaidWithinBound(payment.invoiceId, capturedAmount)
                /\ payments' = RepoUpdate(payments, paymentId,
                                  [status |-> "succeeded", amount |-> capturedAmount])
                /\ invoices' = IF payment.invoiceId # 0
                               THEN updateInvoicePayment(invoices, payment.invoiceId,
                                                         capturedAmount)
                               ELSE invoices
                /\ lastCall' = Call("capturePayment", paymentId, amount, "", "ok",
                                    <<"capturePaymentIntent">>, <<>>)

CancelPayment(paymentId) ==
    /\ UnchangedSubs
    /\ UNCHANGED <<refunds, intents, invoices>>
    /\ \/ /\ ~PaymentFound(paymentId)
          /\ lastCall' = Call("cancelPayment", paymentId, 0, "",
                              "Payment not found", <<>>, <<>>)
          /\ UNCHANGED payments
       \/ /\ PaymentFound(paymentId)
          /\ payments[paymentId].status = "succeeded"
          /\ lastCall' = Call("cancelPayment", paymentId, 0, "",
                              "Cannot cancel a succeeded payment, use refund instead",
                              <<>>, <<>>)
          /\ UNCHANGED payments
       \/ /\ PaymentFound(paymentId)
          /\ payments[paymentId].status # "succeeded"
          /\ payments[paymentId].stripePaymentIntentId # 0
          /\ lastCall' = Call("cancelPayment", paymentId, 0, "",
                              "GatewayError", <<"cancelPaymentIntent">>, <<>>)
          /\ UNCHANGED payments
       \/ /\ PaymentFound(paymentId)
          /\ payments[paymentId].status # "succeeded"
          /\ payments' = RepoUpdate(payments, paymentId, [status |-> "canceled"])
          /\ lastCall' = Call("cancelPayment", paymentId, 0, "", "ok",
                              IF payments[paymentId].stripePaymentIntentId # 0
                              THEN <<"cancelPaymentIntent">> ELSE <<>>, <<>>)

\* ---- refundPayment.  inputAmount = 0 stands for the optional amount left out.
RefundInputs == {0, 5, 10, 30}

refundAmountOf(payment, inputAmount) ==
    IF inputAmount # 0 THEN inputAmount ELSE payment.amount - payment.refundedAmount

\* A variant with the availability check left out.
RefundNeverExceeds(payment, refundAmount) == FALSE

RefundExceeds(payment, refundAmount) ==
    refundAmount > payment.amount - payment.refundedAmount

\* The Error refundPayment throws before it calls anything, or "ok".
RefundRejection(payment, inputAmount) ==
    IF payment.status # "succeeded"
    THEN "Can only refund succeeded payments"
    ELSE IF RefundExceeds(payment, refundAmountOf(payment, inputAmount))
         THEN "Refund amount exceeds available amount"
         ELSE "ok"

NewRefund(paymentId, payment, refundAmount) ==
    [paymentId |-> paymentId, amount |-> refundAmount,
     stripeRefund |-> payment.stripePaymentIntentId # 0, status |-> "succeeded"]

\* The fields refundPayment writes back, computed from the row it read.
RefundedFields(payment, refundAmount) ==
    LET newRefundedAmount == payment.refundedAmount + refundAmount
    IN [refundedAmount |-> newRefundedAmount,
        status |-> IF newRefundedAmount >= payment.amount
                   THEN "refunded" ELSE "partially_refunded"]

RefundStripeCalls(payment) ==
    IF payment.stripePaymentIntentId # 0 THEN <<"createRefund">> ELSE <<>>

\* refundPayment run from start to end with no other call in between.
RefundPayment(paymentId, inputAmount) ==
    /\ UnchangedSubs
    /\ UNCHANGED <<invoices, intents>>
    /\ \/ /\ ~PaymentFound(paymentId)
          /\ lastCall' = Call("refundPayment", paymentId, inputAmount, "",
                              "Payment not found", <<>>, <<>>)
          /\ UNCHANGED <<payments, refunds>>
       \/ /\ PaymentFound(paymentId)
          /\ RefundRejection(payments[paymentId], inputAmount) # "ok"
          /\ lastCall' = Call("refundPayment", paymentId, inputAmount, "",
                              RefundRejection(payments[paymentId], inputAmount),
                              <<>>, <<>>)
          /\ UNCHANGED <<payments, refunds>>
       \/ /\ PaymentFound(paymentId)
          /\ RefundRejection(payments[paymentId], inputAmount) = "ok"
          /\ payments[paymentId].stripePaymentIntentId # 0
          /\ lastCall' = Call("refundPayment", paymentId, inputAmount, "",
                              "GatewayError", <<"createRefund">>, <<>>)
          /\ UNCHANGED <<payments, refunds>>
       \/ /\ PaymentFound(paymentId)
          /\ RefundRejection(payments[paymentId], inputAmount) = "ok"
          /\ Len(refunds) < MaxRefunds
          /\ LET payment == payments[paymentId]
                 refundAmount == refundAmountOf(payment, inputAmount)
             IN /\ refunds' = Append(refunds, NewRefund(paymentId, payment, refundAmount))
                /\ payments' = RepoUpdate(payments, paymentId,
                                          RefundedFields(payment, refundAmount))
                /\ lastCall' = Call("refundPayment", paymentId, inputAmount, "", "ok",
                                    RefundStripeCalls(payment), <<refundAmount>>)

\* PaymentService.retryFailedPayment(paymentId)
RetryFailedPayment(paymentId) ==
    /\ UnchangedSubs
    /\ UNCHANGED <<refunds, invoices>>
    /\ \/ /\ ~PaymentFound(paymentId)
          /\ lastCall' = Call("retryFailedPayment", paymentId, 0, "",
                              "Payment not found", <<>>, <<>>)
          /\ UNCHANGED <<payments, intents>>
       \/ /\ PaymentFound(paymentId)
          /\ payments[paymentId].status # "failed"
          /\ lastCall' = Call("retryFailedPayment", paymentId, 0, "",
                              "Can only retry failed payments", <<>>, <<>>)
          /\ UNCHANGED <<payments, intents>>
       \/ /\ PaymentFound(paymentId)
          /\ payments[paymentId].status = "failed"
          /\ ~HasStripeCustomerId(payments[paymentId].customerId)
          /\ lastCall' = Call("retryFailedPayment", paymentId, 0, "",
                              "Customer not found or no Stripe customer ID", <<>>, <<>>)
          /\ UNCHANGED <<payments, intents>>
       \/ /\ PaymentFound(paymentId)
          /\ payments[paymentId].status = "failed"
          /\ HasStripeCustomerId(payments[paymentId].customerId)
          /\ lastCall' = Call("retryFailedPayment", paymentId, 0, "",
                              "GatewayError", <<"createPaymentIntent">>, <<>>)
          /\ UNCHANGED <<payments, intents>>
       \/ /\ PaymentFound(paymentId)
          /\ payments[paymentId].status = "failed"
          /\ HasStripeCustomerId(payments[paymentId].customerId)
          /\ intents < MaxIntents
          /\ \E stripeStatus \in StripeIntentStatuses :
               /\ intents' = intents + 1
               /\ payments' = RepoUpdate(payments, paymentId,
                     [stripePaymentIntentId |-> intents + 1,
                      status |-> mapStripePaymentStatus(stripeStatus)])
               /\ lastCall' = Call("retryFailedPayment", paymentId, 0, "", "ok",
                                   <<"createPaymentIntent">>, <<>>)

\* paymentRepository.findByStripePaymentIntentId: the row's id, 0 when there is none.
findByStripePaymentIntentId(rows, stripePaymentIntentId) ==
    IF \E p \in DOMAIN rows : rows[p].stripePaymentIntentId = stripePaymentIntentId
    THEN CHOOSE p \in DOMAIN rows : rows[p].stripePaymentIntentId = stripePaymentIntentId
    ELSE 0

\* A variant that writes the status to every payment row.
WebhookPaymentsAll(stripePaymentIntentId, status) ==
    [p \in DOMAIN payments |->
        [payments[p] EXCEPT !.status = mapStripePaymentStatus(status)]]

\* processWebhookPaymentUpdate(stripePaymentIntentId, status): the payment and
\* invoice rows afterwards.
WebhookPayments(stripePaymentIntentId, status) ==
    LET paymentId == findByStripePaymentIntentId(payments, stripePaymentIntentId)
    IN IF paymentId = 0
       THEN payments
       ELSE RepoUpdate(payments, paymentId, [status |-> mapStripePaymentStatus(status)])

WebhookInvoices(stripePaymentIntentId, status) ==
    LET paymentId == findByStripePaymentIntentId(payments, stripePaymentIntentId)
    IN IF paymentId = 0
       THEN invoices
       ELSE IF mapStripePaymentStatus(status) = "succeeded"
               /\ payments[paymentId].invoiceId # 0
            THEN updateInvoicePayment(invoices, payments[paymentId].invoiceId,
                                      payments[paymentId].amount)
            ELSE invoices

WebhookWithinBound(stripePaymentIntentId) ==
    LET paymentId == findByStripePaymentIntentId(payments, stripePaymentIntentId)
    IN paymentId # 0 =>
          PaidWithinBound(payments[paymentId].invoiceId, payments[paymentId].amount)

\* ------------------------------------------------------- WebhookController
\* Event types of the Stripe switch that reach a handler, and one that does not.
StripeEventTypes ==
    {"payment_intent.succeeded", "payment_intent.payment_failed", "invoice.paid",
     "customer.subscription.deleted", "charge.refunded", "unknown.type"}

\* The cases of the Stripe switch: each one calls a handler.
StripeSwitchCases ==
    {"payment_intent.succeeded", "payment_intent.payment_failed", "invoice.paid",
     "invoice.payment_failed", "customer.subscription.created",
     "customer.subscription.updated", "customer.subscription.deleted",
     "customer.subscription.trial_will_end", "charge.refunded",
     "charge.dispute.created"}

\* The cases of the Ramp switch.
RampSwitchCases ==
    {"transaction.created", "transaction.updated", "card.created", "card.suspended",
     "card.terminated", "user.created", "reimbursement.created",
     "reimbursement.updated", "bill.created", "bill.paid"}

\* Ramp event types delivered in the model: two cases of the switch and one
\* type the switch does not know.
RampEventTypes == {"transaction.created", "bill.paid", "unknown.type"}

\* An event that carries no data object.
NoObject == 0

\* A controller that accepts every Stripe signature.
StripeSignatureNeverRejected(signatureValid) == FALSE

\* stripeClient.constructWebhookEvent throws on a signature that does not
\* verify.
StripeSignatureRejected(signatureValid) == ~signatureValid

\* rampClient.verifyWebhookSignature returns false on a mismatch and on any
\* exception of the comparison.
RampSignatureRejected(signatureValid) == ~signatureValid

\* Handlers whose exceptions never reach the controller.
HandlerNeverThrows(switchCases, type, objectId) == FALSE

\* Every handler reads the id of the event's data object first: without an
\* object that read throws. The default branch of the switch reads nothing.
HandlerThrows(switchCases, type, objectId) ==
    type \in switchCases /\ objectId = NoObject

\* handleStripeWebhook for an event about object objectId (for payment_intent
\* events, the payment intent's id).
HandleStripeWebhook(signatureValid, type, objectId) ==
    /\ UnchangedSubs
    /\ UNCHANGED <<refunds, intents>>
    /\ \/ /\ StripeSignatureRejected(signatureValid)
          /\ lastCall' = Call("handleStripeWebhook", objectId, 0, type, "401",
                              <<>>, <<"INVALID_SIGNATURE">>)
          /\ UNCHANGED <<payments, invoices>>
       \/ /\ ~StripeSignatureRejected(signatureValid)
          /\ HandlerThrows(StripeSwitchCases, type, objectId)
          /\ lastCall' = Call("handleStripeWebhook", objectId, 0, type, "500",
                              <<>>, <<"WEBHOOK_ERROR">>)
          /\ UNCHANGED <<payments, invoices>>
       \/ /\ ~StripeSignatureRejected(signatureValid)
          /\ ~HandlerThrows(StripeSwitchCases, type, objectId)
          /\ type = "payment_intent.succeeded"
          /\ WebhookWithinBound(objectId)
          /\ payments' = WebhookPayments(objectId, "succeeded")
          /\ invoices' = WebhookInvoices(objectId, "succeeded")
          /\ lastCall' = Call("handleStripeWebhook", objectId, 0, type, "200",
                              <<>>, <<>>)
       \/ /\ ~StripeSignatureRejected(signatureValid)
          /\ ~HandlerThrows(StripeSwitchCases, type, objectId)
          /\ type = "payment_intent.payment_failed"
          /\ payments' = WebhookPayments(objectId, "failed")
          /\ invoices' = WebhookInvoices(objectId, "failed")
          /\ lastCall' = Call("handleStripeWebhook", objectId, 0, type, "200",
                              <<>>, <<>>)
       \/ /\ ~StripeSignatureRejected(signatureValid)
          /\ ~HandlerThrows(StripeSwitchCases, type, objectId)
          /\ type \notin {"payment_intent.succeeded", "payment_intent.payment_failed"}
          /\ lastCall' = Call("handleStripeWebhook", objectId, 0, type, "200",
                              <<>>, <<>>)
          /\ UNCHANGED <<payments, invoices>>

\* handleRampWebhook: the Ramp handlers only log.
HandleRampWebhook(signatureValid, type, objectId) ==
    /\ UnchangedSubs
    /\ UNCHANGED <<payments, refunds, invoices, intents>>
    /\ \/ /\ RampSignatureRejected(signatureValid)
          /\ lastCall' = Call("handleRampWebhook", objectId, 0, type, "401",
                              <<>>, <<"INVALID_SIGNATURE">>)
       \/ /\ ~RampSignatureRejected(signatureValid)
          /\ HandlerThrows(RampSwitchCases, type, objectId)
          /\ lastCall' = Call("handleRampWebhook", objectId, 0, type, "500",
                              <<>>, <<"WEBHOOK_ERROR">>)
       \/ /\ ~RampSignatureRejected(signatureValid)
          /\ ~HandlerThrows(RampSwitchCases, type, objectId)
          /\ lastCall' = Call("handleRampWebhook", objectId, 0, type, "200",
                              <<>>, <<>>)

\* ----------------------------------------------------------- InvoiceService
\* CreateLineItemInput: quantity, unitPrice, taxRate (0: none given).
LineInputs ==
    {[quantity |-> 1, unitPrice |-> 10, taxRate |-> 0],
     [quantity |-> 2, unitPrice |-> 10, taxRate |-> 10]}

LineInputLists == UNION {[1..n -> LineInputs] : n \in 0..MaxLineItems}

\* A line item of an invoice: amount = quantity * unitPrice and its tax.
NewLineItem(id, input) ==
    LET amount == input.quantity * input.unitPrice
    IN [id |-> id, amount |-> amount,
        taxAmount |-> IF input.taxRate # 0 THEN (amount * input.taxRate) \div 100 ELSE 0]

RECURSIVE SumAmount(_)
SumAmount(items) ==
    IF items = <<>> THEN 0 ELSE Head(items).amount + SumAmount(Tail(items))

RECURSIVE SumTax(_)
SumTax(items) ==
    IF items = <<>> THEN 0 ELSE Head(items).taxAmount + SumTax(Tail(items))

\* A fresh line item id (uuidv4): one no line item of the invoice has.
RECURSIVE MaxLineId(_)
MaxLineId(items) ==
    IF items = <<>> THEN 0 ELSE Max(Head(items).id, MaxLineId(Tail(items)))

\* lineItems.filter(item => item.id !== lineItemId)
RECURSIVE FilterLineItems(_, _)
FilterLineItems(items, lineItemId) ==
    IF items = <<>> THEN <<>>
    ELSE IF Head(items).id # lineItemId
         THEN <<Head(items)>> \o FilterLineItems(Tail(items), lineItemId)
         ELSE FilterLineItems(Tail(items), lineItemId)

InvoiceFound(invoiceId) == invoiceId \in DOMAIN invoices

\* The subtotal, tax, total and amountDue addLineItem and removeLineItem write.
LineItemTotals(invoice, newLineItems) ==
    LET subtotal == SumAmount(newLineItems)
        tax == SumTax(newLineItems)
        total == subtotal + tax
    IN [lineItems |-> newLineItems, subtotal |-> subtotal, tax |-> tax,
        total |-> total, amountDue |-> total - invoice.amountPaid]

NewInvoice(customerId, subscriptionId, stripeInvoiceId, status, lineItems) ==
    LET subtotal == SumAmount(lineItems)
        tax == SumTax(lineItems)
        total == subtotal + tax
    IN [customerId |-> customerId, subscriptionId |-> subscriptionId,
        stripeInvoiceId |-> stripeInvoiceId, status |-> status,
        lineItems |-> lineItems, subtotal |-> subtotal, tax |-> tax, total |-> total,
        amountPaid |-> 0, amountDue |-> total]

UnchangedPayments == UNCHANGED <<payments, refunds, intents>>

CreateInvoice(customerId, inputs) ==
    /\ Len(invoices) < MaxInvoices
    /\ UnchangedSubs
    /\ UnchangedPayments
    /\ \/ /\ ~CustomerExists(customerId)
          /\ lastCall' = Call("createInvoice", 0, 0, "", "Customer not found",
                              <<>>, <<>>)
          /\ UNCHANGED invoices
       \/ /\ CustomerExists(customerId)
          /\ HasStripeCustomerId(customerId)
          /\ lastCall' = Call("createInvoice", 0, 0, "", "GatewayError",
                              <<"createInvoice">>, <<>>)
          /\ UNCHANGED invoices
       \/ /\ CustomerExists(customerId)
          /\ invoices' = Append(invoices,
                NewInvoice(customerId, 0, HasStripeCustomerId(customerId), "draft",
                           [i \in DOMAIN inputs |-> NewLineItem(i, inputs[i])]))
          /\ lastCall' = Call("createInvoice", Len(invoices) + 1, 0, "", "ok",
                              IF HasStripeCustomerId(customerId)
                              THEN <<"createInvoice">> ELSE <<>>, <<>>)

AddLineItem(invoiceId, input) ==
    /\ UnchangedSubs
    /\ UnchangedPayments
    /\ \/ /\ ~InvoiceFound(invoiceId)
          /\ lastCall' = Call("addLineItem", invoiceId, 0, "", "Invoice not found",
                              <<>>, <<>>)
          /\ UNCHANGED invoices
       \/ /\ InvoiceFound(invoiceId)
          /\ invoices[invoiceId].status # "draft"
          /\ lastCall' = Call("addLineItem", invoiceId, 0, "",
                              "Can only add line items to draft invoices", <<>>, <<>>)
          /\ UNCHANGED invoices
       \/ /\ InvoiceFound(invoiceId)
          /\ invoices[invoiceId].status = "draft"
          /\ Len(invoices[invoiceId].lineItems) < MaxLineItems
          /\ LET invoice == invoices[invoiceId]
                 lineItem == NewLineItem(MaxLineId(invoice.lineItems) + 1, input)
             IN invoices' = RepoUpdate(invoices, invoiceId,
                    LineItemTotals(invoice, Append(invoice.lineItems, lineItem)))
          /\ lastCall' = Call("addLineItem", invoiceId, 0, "", "ok", <<>>, <<>>)

RemoveLineItem(invoiceId, lineItemId) ==
    /\ UnchangedSubs
    /\ UnchangedPayments
    /\ \/ /\ ~InvoiceFound(invoiceId)
          /\ lastCall' = Call("removeLineItem", invoiceId, 0, "", "Invoice not found",
                              <<>>, <<>>)
          /\ UNCHANGED invoices
       \/ /\ InvoiceFound(invoiceId)
          /\ invoices[invoiceId].status # "draft"
          /\ lastCall' = Call("removeLineItem", invoiceId, 0, "",
                              "Can only remove line items from draft invoices",
                              <<>>, <<>>)
          /\ UNCHANGED invoices
       \/ /\ InvoiceFound(invoiceId)
          /\ invoices[invoiceId].status = "draft"
          /\ LET invoice == invoices[invoiceId]
             IN invoices' = RepoUpdate(invoices, invoiceId,
                    LineItemTotals(invoice, FilterLineItems(invoice.lineItems, lineItemId)))
          /\ lastCall' = Call("removeLineItem", invoiceId, 0, "", "ok", <<>>, <<>>)

\* updateInvoice(invoiceId, {dueDate, metadata}): neither field is part of the
\* rows of the model, so a successful call leaves them as they are.
UpdateInvoice(invoiceId) ==
    /\ UnchangedSubs
    /\ UnchangedPayments
    /\ UNCHANGED invoices
    /\ \/ /\ ~InvoiceFound(invoiceId)
          /\ lastCall' = Call("updateInvoice", invoiceId, 0, "", "Invoice not found",
                              <<>>, <<>>)
       \/ /\ InvoiceFound(invoiceId)
          /\ invoices[invoiceId].status # "draft"
          /\ lastCall' = Call("updateInvoice", invoiceId, 0, "",
                              "Can only update draft invoices", <<>>, <<>>)
       \/ /\ InvoiceFound(invoiceId)
          /\ invoices[invoiceId].status = "draft"
          /\ lastCall' = Call("updateInvoice", invoiceId, 0, "", "ok", <<>>, <<>>)

\* A variant of finalizeInvoice without the draft check.
FinalizeAnyInvoice(invoiceId) ==
    /\ UnchangedSubs
    /\ UnchangedPayments
    /\ InvoiceFound(invoiceId)
    /\ invoices' = RepoUpdate(invoices, invoiceId, [status |-> "open"])
    /\ lastCall' = Call("finalizeInvoice", invoiceId, 0, "", "ok",
                        IF invoices[invoiceId].stripeInvoiceId
                        THEN <<"finalizeInvoice">> ELSE <<>>, <<>>)

FinalizeInvoice(invoiceId) ==
    /\ UnchangedSubs
    /\ UnchangedPayments
    /\ \/ /\ ~InvoiceFound(invoiceId)
          /\ lastCall' = Call("finalizeInvoice", invoiceId, 0, "", "Invoice not found",
                              <<>>, <<>>)
          /\ UNCHANGED invoices
       \/ /\ InvoiceFound(invoiceId)
          /\ invoices[invoiceId].status # "draft"
          /\ lastCall' = Call("finalizeInvoice", invoiceId, 0, "",
                              "Can only finalize draft invoices", <<>>, <<>>)
          /\ UNCHANGED invoices
       \/ /\ InvoiceFound(invoiceId)
          /\ invoices[invoiceId].status = "draft"
          /\ invoices[invoiceId].stripeInvoiceId
          /\ lastCall' = Call("finalizeInvoice", invoiceId, 0, "", "GatewayError",
                              <<"finalizeInvoice">>, <<>>)
          /\ UNCHANGED invoices
       \/ /\ InvoiceFound(invoiceId)
          /\ invoices[invoiceId].status = "draft"
          /\ invoices' = RepoUpdate(invoices, invoiceId, [status |-> "open"])
          /\ lastCall' = Call("finalizeInvoice", invoiceId, 0, "", "ok",
                              IF invoices[invoiceId].stripeInvoiceId
                              THEN <<"finalizeInvoice">> ELSE <<>>, <<>>)

\* sendInvoice(invoiceId): a draft is finalized first; then the gateway sends
\* the invoice if it knows it.
SendInvoice(invoiceId) ==
    /\ UnchangedSubs
    /\ UnchangedPayments
    /\ \/ /\ ~InvoiceFound(invoiceId)
          /\ lastCall' = Call("sendInvoice", invoiceId, 0, "", "Invoice not found",
                              <<>>, <<>>)
          /\ UNCHANGED invoices
       \/ \* finalizeInvoice throws at the gateway
          /\ InvoiceFound(invoiceId)
          /\ invoices[invoiceId].status = "draft"
          /\ invoices[invoiceId].stripeInvoiceId
          /\ lastCall' = Call("sendInvoice", invoiceId, 0, "", "GatewayError",
                              <<"finalizeInvoice">>, <<>>)
          /\ UNCHANGED invoices
       \/ \* stripeClient.sendInvoice throws, after a draft was finalized
          /\ InvoiceFound(invoiceId)
          /\ invoices[invoiceId].stripeInvoiceId
          /\ invoices' = IF invoices[invoiceId].status = "draft"
                         THEN RepoUpdate(invoices, invoiceId, [status |-> "open"])
                         ELSE invoices
          /\ lastCall' = Call("sendInvoice", invoiceId, 0, "", "GatewayError",
                              IF invoices[invoiceId].status = "draft"
                              THEN <<"finalizeInvoice", "sendInvoice">>
                              ELSE <<"sendInvoice">>, <<>>)
       \/ /\ InvoiceFound(invoiceId)
          /\ invoices' = IF invoices[invoiceId].status = "draft"
                         THEN RepoUpdate(invoices, invoiceId, [status |-> "open"])
                         ELSE invoices
          /\ lastCall' = Call("sendInvoice", invoiceId, 0, "", "ok",
                              IF ~invoices[invoiceId].stripeInvoiceId THEN <<>>
                              ELSE IF invoices[invoiceId].status = "draft"
                                   THEN <<"finalizeInvoice", "sendInvoice">>
                                   ELSE <<"sendInvoice">>, <<>>)

PayInvoice(invoiceId) ==
    /\ UnchangedSubs
    /\ UnchangedPayments
    /\ \/ /\ ~InvoiceFound(invoiceId)
          /\ lastCall' = Call("payInvoice", invoiceId, 0, "", "Invoice not found",
                              <<>>, <<>>)
          /\ UNCHANGED invoices
       \/ /\ InvoiceFound(invoiceId)
          /\ invoices[invoiceId].status = "paid"
          /\ lastCall' = Call("payInvoice", invoiceId, 0, "", "Invoice is already paid",
                              <<>>, <<>>)
          /\ UNCHANGED invoices
       \/ /\ InvoiceFound(invoiceId)
          /\ invoices[invoiceId].status # "paid"
          /\ invoices[invoiceId].stripeInvoiceId
          /\ lastCall' = Call("payInvoice", invoiceId, 0, "", "GatewayError",
                              <<"payInvoice">>, <<>>)
          /\ UNCHANGED invoices
       \/ /\ InvoiceFound(invoiceId)
          /\ invoices[invoiceId].status # "paid"
          /\ invoices' = RepoUpdate(invoices, invoiceId,
                [status |-> "paid", amountPaid |-> invoices[invoiceId].total,
                 amountDue |-> 0])
          /\ lastCall' = Call("payInvoice", invoiceId, 0, "", "ok",
                              IF invoices[invoiceId].stripeInvoiceId
                              THEN <<"payInvoice">> ELSE <<>>, <<>>)

VoidInvoice(invoiceId) ==
    /\ UnchangedSubs
    /\ UnchangedPayments
    /\ \/ /\ ~InvoiceFound(invoiceId)
          /\ lastCall' = Call("voidInvoice", invoiceId, 0, "", "Invoice not found",
                              <<>>, <<>>)
          /\ UNCHANGED invoices
       \/ /\ InvoiceFound(invoiceId)
          /\ invoices[invoiceId].status = "paid"
          /\ lastCall' = Call("voidInvoice", invoiceId, 0, "",
                              "Cannot void a paid invoice", <<>>, <<>>)
          /\ UNCHANGED invoices
       \/ /\ InvoiceFound(invoiceId)
          /\ invoices[invoiceId].status # "paid"
          /\ invoices[invoiceId].stripeInvoiceId
          /\ lastCall' = Call("voidInvoice", invoiceId, 0, "", "GatewayError",
                              <<"voidInvoice">>, <<>>)
          /\ UNCHANGED invoices
       \/ /\ InvoiceFound(invoiceId)
          /\ invoices[invoiceId].status # "paid"
          /\ invoices' = RepoUpdate(invoices, invoiceId, [status |-> "void"])
          /\ lastCall' = Call("voidInvoice", invoiceId, 0, "", "ok",
                              IF invoices[invoiceId].stripeInvoiceId
                              THEN <<"voidInvoice">> ELSE <<>>, <<>>)

MarkUncollectible(invoiceId) ==
    /\ UnchangedSubs
    /\ UnchangedPayments
    /\ \/ /\ ~InvoiceFound(invoiceId)
          /\ lastCall' = Call("markUncollectible", invoiceId, 0, "", "Invoice not found",
                              <<>>, <<>>)
          /\ UNCHANGED invoices
       \/ /\ InvoiceFound(invoiceId)
          /\ invoices' = RepoUpdate(invoices, invoiceId, [status |-> "uncollectible"])
          /\ lastCall' = Call("markUncollectible", invoiceId, 0, "", "ok", <<>>, <<>>)

\* ----------------------------------------------- BillingService, invoice side
getCustomerCredits(customerId) == 0

\* BillingService.retryFailedPayment(invoiceId)
BillingRetryFailedPayment(invoiceId) ==
    /\ UnchangedSubs
    /\ UNCHANGED refunds
    /\ \/ /\ ~InvoiceFound(invoiceId)
          /\ lastCall' = Call("billing.retryFailedPayment", invoiceId, 0, "",
                              "Invoice not found", <<>>, <<>>)
          /\ UNCHANGED <<payments, invoices, intents>>
       \/ /\ InvoiceFound(invoiceId)
          /\ invoices[invoiceId].status = "paid"
          /\ lastCall' = Call("billing.retryFailedPayment", invoiceId, 0, "",
                              "Invoice is already paid", <<>>, <<>>)
          /\ UNCHANGED <<payments, invoices, intents>>
       \/ /\ InvoiceFound(invoiceId)
          /\ invoices[invoiceId].status # "paid"
          /\ ~HasStripeCustomerId(invoices[invoiceId].customerId)
          /\ lastCall' = Call("billing.retryFailedPayment", invoiceId, 0, "",
                              "Customer not found or no Stripe customer ID", <<>>, <<>>)
          /\ UNCHANGED <<payments, invoices, intents>>
       \/ /\ InvoiceFound(invoiceId)
          /\ invoices[invoiceId].status # "paid"
          /\ HasStripeCustomerId(invoices[invoiceId].customerId)
          /\ invoices[invoiceId].stripeInvoiceId
          /\ lastCall' = Call("billing.retryFailedPayment", invoiceId, 0, "",
                              "GatewayError", <<"payInvoice">>, <<>>)
          /\ UNCHANGED <<payments, invoices, intents>>
       \/ /\ InvoiceFound(invoiceId)
          /\ invoices[invoiceId].status # "paid"
          /\ HasStripeCustomerId(invoices[invoiceId].customerId)
          /\ Len(payments) < MaxPayments
          /\ invoices[invoiceId].stripeInvoiceId => intents < MaxIntents
          /\ LET invoice == invoices[invoiceId]
                 \* stripeInvoice?.payment_intent: the intent the gateway paid with
                 intentId == IF invoice.stripeInvoiceId THEN intents + 1 ELSE 0
             IN /\ intents' = IF invoice.stripeInvoiceId THEN intents + 1 ELSE intents
                /\ payments' = Append(payments,
                      NewPayment(invoice.customerId, invoiceId, intentId,
                                 invoice.amountDue, "succeeded"))
                /\ invoices' = RepoUpdate(invoices, invoiceId,
                      [status |-> "paid", amountPaid |-> invoice.total, amountDue |-> 0])
                /\ lastCall' = Call("billing.retryFailedPayment", invoiceId, 0, "", "ok",
                                    IF invoice.stripeInvoiceId
                                    THEN <<"payInvoice">> ELSE <<>>, <<>>)

\* BillingService.applyCredits(customerId, invoiceId)
ApplyCredits(customerId, invoiceId) ==
    /\ UnchangedSubs
    /\ UnchangedPayments
    /\ \/ /\ ~CustomerExists(customerId) \/ ~InvoiceFound(invoiceId)
          /\ lastCall' = Call("applyCredits", invoiceId, 0, "",
                              "Customer or invoice not found", <<>>, <<>>)
          /\ UNCHANGED invoices
       \/ /\ CustomerExists(customerId)
          /\ InvoiceFound(invoiceId)
          /\ LET invoice == invoices[invoiceId]
                 creditToApply == Min(getCustomerCredits(customerId), invoice.amountDue)
             IN invoices' =
                  IF creditToApply <= 0
                  THEN invoices
                  ELSE RepoUpdate(invoices, invoiceId,
                          [amountPaid |-> invoice.amountPaid + creditToApply,
                           amountDue |-> invoice.amountDue - creditToApply,
                           status |-> IF invoice.amountDue - creditToApply = 0
                                      THEN "paid" ELSE invoice.status])
          /\ lastCall' = Call("applyCredits", invoiceId, 0, "", "ok", <<>>, <<>>)

\* ------------------------------------------------------------------ dates
\* dayjs arithmetic on whole days; day 0 is 2024-01-01.
\* An optional Date that is undefined.
NoDate == -1

IsLeap(y) == (y % 4 = 0 /\ y % 100 # 0) \/ y % 400 = 0

YearLen(y) == IF IsLeap(y) THEN 366 ELSE 365

DaysInMonth(y, m) ==
    IF m = 2 THEN (IF IsLeap(y) THEN 29 ELSE 28)
    ELSE IF m \in {4, 6, 9, 11} THEN 30 ELSE 31

RECURSIVE YearOfDay(_, _)
YearOfDay(n, y) ==
    IF n < YearLen(y) THEN <<y, n>> ELSE YearOfDay(n - YearLen(y), y + 1)

RECURSIVE MonthOfDay(_, _, _)
MonthOfDay(n, y, m) ==
    IF n < DaysInMonth(y, m) THEN <<m, n + 1>>
    ELSE MonthOfDay(n - DaysInMonth(y, m), y, m + 1)

\* <<year, month, day of month>> of day number n.
DateOf(n) ==
    LET yd == YearOfDay(n, 2024)
        md == MonthOfDay(yd[2], yd[1], 1)
    IN <<yd[1], md[1], md[2]>>

RECURSIVE DaysBeforeYear(_)
DaysBeforeYear(y) ==
    IF y <= 2024 THEN 0 ELSE YearLen(y - 1) + DaysBeforeYear(y - 1)

RECURSIVE DaysBeforeMonth(_, _)
DaysBeforeMonth(y, m) ==
    IF m <= 1 THEN 0 ELSE DaysInMonth(y, m - 1) + DaysBeforeMonth(y, m - 1)

DayNumber(y, m, d) == DaysBeforeYear(y) + DaysBeforeMonth(y, m) + d - 1

\* dayjs(n).add(k, 'month'): the day of month is kept, cut to the month's length.
AddMonths(n, k) ==
    LET ymd == DateOf(n)
        total == (ymd[2] - 1) + k
        y == ymd[1] + total \div 12
        m == (total % 12) + 1
    IN DayNumber(y, m, Min(ymd[3], DaysInMonth(y, m)))

\* dayjs(start).add(count, unit)
DayjsAdd(start, count, unit) ==
    CASE unit = "day" -> start + count
      [] unit = "week" -> start + 7 * count
      [] unit = "month" -> AddMonths(start, count)
      [] unit = "year" -> AddMonths(start, 12 * count)

\* a.diff(b, 'day')
DiffDays(a, b) == a - b

\* ---------------------------------------------------------- PlanRepository
PlanIds == {"plan_month", "plan_week", "plan_day", "plan_year", "plan_inactive"}
MissingPlan == "plan_missing"

Plan(planId) ==
    CASE planId = "plan_month" ->
            [amount |-> 9900, currency |-> "USD", interval |-> "month",
             intervalCount |-> 1, trialPeriodDays |-> 0, active |-> TRUE,
             stripePriceId |-> TRUE]
      [] planId = "plan_week" ->
            [amount |-> 2500, currency |-> "USD", interval |-> "week",
             intervalCount |-> 1, trialPeriodDays |-> 0, active |-> TRUE,
             stripePriceId |-> TRUE]
      [] planId = "plan_day" ->
            [amount |-> 500, currency |-> "EUR", interval |-> "day",
             intervalCount |-> 2, trialPeriodDays |-> 0, active |-> TRUE,
             stripePriceId |-> FALSE]
      [] planId = "plan_year" ->
            [amount |-> 99000, currency |-> "USD", interval |-> "year",
             intervalCount |-> 1, trialPeriodDays |-> 1, active |-> TRUE,
             stripePriceId |-> TRUE]
      [] planId = "plan_inactive" ->
            [amount |-> 100, currency |-> "USD", interval |-> "month",
             intervalCount |-> 1, trialPeriodDays |-> 0, active |-> FALSE,
             stripePriceId |-> TRUE]

PlanExists(planId) == planId \in PlanIds

\* ------------------------------------------------------ SubscriptionService
calculatePeriodEnd(start, interval, intervalCount) ==
    DayjsAdd(start, intervalCount, interval)

SubscriptionFound(subscriptionId) == subscriptionId \in DOMAIN subscriptions

NewSubscription(customerId, planId, stripeSubscriptionId, status, quantity, periodStart, periodEnd, cancelAtPeriodEnd, trialStart, trialEnd) ==
    [customerId |-> customerId, planId |-> planId,
     stripeSubscriptionId |-> stripeSubscriptionId, status |-> status,
     quantity |-> quantity, currency |-> Plan(planId).currency,
     currentPeriodStart |-> periodStart, currentPeriodEnd |-> periodEnd,
     cancelAtPeriodEnd |-> cancelAtPeriodEnd, canceledAt |-> NoDate,
     endedAt |-> NoDate, trialStart |-> trialStart, trialEnd |-> trialEnd,
     metadata |-> {}]

UnchangedBilling == UNCHANGED <<payments, refunds, invoices, intents, now, ticks, tasks, sync>>

\* What the gateway reports as the status of a subscription it created without a
\* trial.
StripeSubscriptionStatuses == {"active", "incomplete"}

\* quantity = 0 stands for the optional quantity left out (input.quantity || 1),
\* trialDays = 0 for no trialDays given, billingCycleAnchor = NoDate for no
\* anchor given.
CreateSubscription(customerId, planId, quantity, trialDays, cancelAtPeriodEnd, billingCycleAnchor) ==
    /\ Len(subscriptions) < MaxSubscriptions
    /\ UnchangedBilling
    /\ \/ /\ ~CustomerExists(customerId)
          /\ lastCall' = Call("createSubscription", 0, 0, "", "Customer not found",
                              <<>>, <<>>)
          /\ UNCHANGED subscriptions
       \/ /\ CustomerExists(customerId)
          /\ ~PlanExists(planId)
          /\ lastCall' = Call("createSubscription", 0, 0, "", "Plan not found",
                              <<>>, <<>>)
          /\ UNCHANGED subscriptions
       \/ /\ CustomerExists(customerId)
          /\ PlanExists(planId)
          /\ ~Plan(planId).active
          /\ lastCall' = Call("createSubscription", 0, 0, "",
                              "Cannot subscribe to an inactive plan", <<>>, <<>>)
          /\ UNCHANGED subscriptions
       \/ /\ CustomerExists(customerId)
          /\ PlanExists(planId)
          /\ Plan(planId).active
          /\ HasStripeCustomerId(customerId) /\ Plan(planId).stripePriceId
          /\ lastCall' = Call("createSubscription", 0, 0, "", "GatewayError",
                              <<"createSubscription">>, <<>>)
          /\ UNCHANGED subscriptions
       \/ /\ CustomerExists(customerId)
          /\ PlanExists(planId)
          /\ Plan(planId).active
          /\ HasStripeCustomerId(customerId) /\ Plan(planId).stripePriceId
          /\ \E stripeStatus \in StripeSubscriptionStatuses :
               LET plan == Plan(planId)
                   \* trial_period_days: input.trialDays || plan.trialPeriodDays
                   trialPeriodDays == IF trialDays # 0 THEN trialDays
                                      ELSE plan.trialPeriodDays
                   trial == trialPeriodDays # 0
                   \* the gateway's current_period_end: the trial's end, the
                   \* billing cycle anchor it was given, or one interval after
                   \* the start
                   periodEnd == IF trial THEN now + trialPeriodDays
                                ELSE IF billingCycleAnchor # NoDate
                                     THEN billingCycleAnchor
                                     ELSE calculatePeriodEnd(now, plan.interval,
                                                             plan.intervalCount)
               IN subscriptions' = Append(subscriptions,
                     NewSubscription(customerId, planId, TRUE,
                        IF trial THEN "trialing" ELSE stripeStatus,
                        IF quantity # 0 THEN quantity ELSE 1,
                        now, periodEnd, cancelAtPeriodEnd,
                        IF trial THEN now ELSE NoDate,
                        IF trial THEN now + trialPeriodDays ELSE NoDate))
          /\ lastCall' = Call("createSubscription", Len(subscriptions) + 1, 0, "", "ok",
                              <<"createSubscription">>, <<>>)
       \/ /\ CustomerExists(customerId)
          /\ PlanExists(planId)
          /\ Plan(planId).active
          /\ ~(HasStripeCustomerId(customerId) /\ Plan(planId).stripePriceId)
          /\ LET plan == Plan(planId)
                 trial == trialDays # 0
             IN subscriptions' = Append(subscriptions,
                   NewSubscription(customerId, planId, FALSE,
                      IF trial THEN "trialing" ELSE "active",
                      IF quantity # 0 THEN quantity ELSE 1,
                      now, calculatePeriodEnd(now, plan.interval, plan.intervalCount),
                      cancelAtPeriodEnd,
                      IF trial THEN now ELSE NoDate,
                      IF trial THEN now + trialDays ELSE NoDate))
          /\ lastCall' = Call("createSubscription", Len(subscriptions) + 1, 0, "", "ok",
                              <<>>, <<>>)

\* UpdateSubscriptionInput: planId ("" when left out), quantity and
\* cancelAtPeriodEnd (<<>> when left out, else <<value>>).
UpdateInputs ==
    {[planId |-> "", quantity |-> <<>>, cancelAtPeriodEnd |-> <<TRUE>>],
     [planId |-> "plan_day", quantity |-> <<2>>, cancelAtPeriodEnd |-> <<>>],
     [planId |-> "", quantity |-> <<0>>, cancelAtPeriodEnd |-> <<>>]}

UpdateSubscription(subscriptionId, input) ==
    /\ UnchangedBilling
    /\ \/ /\ ~SubscriptionFound(subscriptionId)
          /\ lastCall' = Call("updateSubscription", subscriptionId, 0, "",
                              "Subscription not found", <<>>, <<>>)
          /\ UNCHANGED subscriptions
       \/ /\ SubscriptionFound(subscriptionId)
          /\ subscriptions[subscriptionId].stripeSubscriptionId
          /\ input.planId # ""
          /\ ~(PlanExists(input.planId) /\ Plan(input.planId).stripePriceId)
          /\ lastCall' = Call("updateSubscription", subscriptionId, 0, "",
                              "Plan not found or has no Stripe price", <<>>, <<>>)
          /\ UNCHANGED subscriptions
       \/ /\ SubscriptionFound(subscriptionId)
          /\ subscriptions[subscriptionId].stripeSubscriptionId
          /\ input.planId # "" => PlanExists(input.planId) /\ Plan(input.planId).stripePriceId
          /\ lastCall' = Call("updateSubscription", subscriptionId, 0, "",
                              "GatewayError", <<"updateSubscription">>, <<>>)
          /\ UNCHANGED subscriptions
       \/ /\ SubscriptionFound(subscriptionId)
          /\ subscriptions[subscriptionId].stripeSubscriptionId =>
                (input.planId # "" =>
                    PlanExists(input.planId) /\ Plan(input.planId).stripePriceId)
          /\ LET subscription == subscriptions[subscriptionId]
             IN subscriptions' = RepoUpdate(subscriptions, subscriptionId,
                   [planId |-> IF input.planId # "" THEN input.planId
                               ELSE subscription.planId,
                    quantity |-> IF input.quantity # <<>> THEN input.quantity[1]
                                 ELSE subscription.quantity,
                    cancelAtPeriodEnd |->
                        IF input.cancelAtPeriodEnd # <<>> THEN input.cancelAtPeriodEnd[1]
                        ELSE subscription.cancelAtPeriodEnd])
          /\ lastCall' = Call("updateSubscription", subscriptionId, 0, "", "ok",
                              IF subscriptions[subscriptionId].stripeSubscriptionId
                              THEN <<"updateSubscription">> ELSE <<>>, <<>>)

\* A variant that ends the subscription whether or not immediate is set.
CancelAlwaysEnds(immediate) ==
    [canceledAt |-> now, status |-> "canceled", endedAt |-> now]

\* updateData of cancelSubscription.
CancelUpdateData(immediate) ==
    IF immediate
    THEN [canceledAt |-> now, status |-> "canceled", endedAt |-> now]
    ELSE [canceledAt |-> now, cancelAtPeriodEnd |-> TRUE]

CancelSubscription(subscriptionId, immediate) ==
    /\ UnchangedBilling
    /\ \/ /\ ~SubscriptionFound(subscriptionId)
          /\ lastCall' = Call("cancelSubscription", subscriptionId, 0, "",
                              "Subscription not found", <<>>, <<>>)
          /\ UNCHANGED subscriptions
       \/ /\ SubscriptionFound(subscriptionId)
          /\ subscriptions[subscriptionId].stripeSubscriptionId
          /\ lastCall' = Call("cancelSubscription", subscriptionId, 0, "",
                              "GatewayError", <<"cancelSubscription">>, <<>>)
          /\ UNCHANGED subscriptions
       \/ /\ SubscriptionFound(subscriptionId)
          /\ subscriptions' = RepoUpdate(subscriptions, subscriptionId,
                                        CancelUpdateData(immediate))
          \* the gateway is asked with cancelAtPeriodEnd = !immediate
          /\ lastCall' = Call("cancelSubscription", subscriptionId, 0,
                              IF immediate THEN "immediate" ELSE "at_period_end", "ok",
                              IF subscriptions[subscriptionId].stripeSubscriptionId
                              THEN <<IF immediate THEN "subscriptions.cancel"
                                     ELSE "subscriptions.update">>
                              ELSE <<>>, <<>>)

\* A variant with the canceled check left out.
ResumeNeverRejected(subscription) == FALSE

\* The state resumeSubscription refuses.
ResumeRejected(subscription) == subscription.status = "canceled"

ResumeSubscription(subscriptionId) ==
    /\ UnchangedBilling
    /\ \/ /\ ~SubscriptionFound(subscriptionId)
          /\ lastCall' = Call("resumeSubscription", subscriptionId, 0, "",
                              "Subscription not found", <<>>, <<>>)
          /\ UNCHANGED subscriptions
       \/ /\ SubscriptionFound(subscriptionId)
          /\ ResumeRejected(subscriptions[subscriptionId])
          /\ lastCall' = Call("resumeSubscription", subscriptionId, 0, "",
                              "Cannot resume a canceled subscription", <<>>, <<>>)
          /\ UNCHANGED subscriptions
       \/ /\ SubscriptionFound(subscriptionId)
          /\ ~ResumeRejected(subscriptions[subscriptionId])
          /\ subscriptions[subscriptionId].stripeSubscriptionId
          /\ lastCall' = Call("resumeSubscription", subscriptionId, 0, "",
                              "GatewayError", <<"updateSubscription">>, <<>>)
          /\ UNCHANGED subscriptions
       \/ /\ SubscriptionFound(subscriptionId)
          /\ ~ResumeRejected(subscriptions[subscriptionId])
          /\ subscriptions' = RepoUpdate(subscriptions, subscriptionId,
                [cancelAtPeriodEnd |-> FALSE, canceledAt |-> NoDate])
          /\ lastCall' = Call("resumeSubscription", subscriptionId, 0, "", "ok",
                              IF subscriptions[subscriptionId].stripeSubscriptionId
                              THEN <<"updateSubscription">> ELSE <<>>, <<>>)

PauseSubscription(subscriptionId) ==
    /\ UnchangedBilling
    /\ \/ /\ ~SubscriptionFound(subscriptionId)
          /\ lastCall' = Call("pauseSubscription", subscriptionId, 0, "",
                              "Subscription not found", <<>>, <<>>)
          /\ UNCHANGED subscriptions
       \/ /\ SubscriptionFound(subscriptionId)
          /\ subscriptions[subscriptionId].stripeSubscriptionId
          /\ lastCall' = Call("pauseSubscription", subscriptionId, 0, "",
                              "GatewayError", <<"updateSubscription">>, <<>>)
          /\ UNCHANGED subscriptions
       \/ /\ SubscriptionFound(subscriptionId)
          /\ subscriptions' = RepoUpdate(subscriptions, subscriptionId,
                [status |-> "paused",
                 metadata |-> subscriptions[subscriptionId].metadata
                              \cup {"pausedAt", "pauseBehavior", "resumesAt"}])
          /\ lastCall' = Call("pauseSubscription", subscriptionId, 0, "", "ok",
                              IF subscriptions[subscriptionId].stripeSubscriptionId
                              THEN <<"updateSubscription">> ELSE <<>>, <<>>)

UnpauseSubscription(subscriptionId) ==
    /\ UnchangedBilling
    /\ \/ /\ ~SubscriptionFound(subscriptionId)
          /\ lastCall' = Call("unpauseSubscription", subscriptionId, 0, "",
                              "Subscription not found", <<>>, <<>>)
          /\ UNCHANGED subscriptions
       \/ /\ SubscriptionFound(subscriptionId)
          /\ subscriptions[subscriptionId].stripeSubscriptionId
          /\ lastCall' = Call("unpauseSubscription", subscriptionId, 0, "",
                              "GatewayError", <<"resumeSubscription">>, <<>>)
          /\ UNCHANGED subscriptions
       \/ /\ SubscriptionFound(subscriptionId)
          /\ subscriptions' = RepoUpdate(subscriptions, subscriptionId,
                [status |-> "active",
                 metadata |-> subscriptions[subscriptionId].metadata \cup {"unpausedAt"}])
          /\ lastCall' = Call("unpauseSubscription", subscriptionId, 0, "", "ok",
                              IF subscriptions[subscriptionId].stripeSubscriptionId
                              THEN <<"resumeSubscription">> ELSE <<>>, <<>>)

ChangePlan(subscriptionId, newPlanId) ==
    /\ UnchangedBilling
    /\ \/ /\ ~SubscriptionFound(subscriptionId)
          /\ lastCall' = Call("changePlan", subscriptionId, 0, "",
                              "Subscription not found", <<>>, <<>>)
          /\ UNCHANGED subscriptions
       \/ /\ SubscriptionFound(subscriptionId)
          /\ ~PlanExists(newPlanId)
          /\ lastCall' = Call("changePlan", subscriptionId, 0, "",
                              "Plan not found", <<>>, <<>>)
          /\ UNCHANGED subscriptions
       \/ /\ SubscriptionFound(subscriptionId)
          /\ PlanExists(newPlanId)
          /\ ~Plan(newPlanId).active
          /\ lastCall' = Call("changePlan", subscriptionId, 0, "",
                              "Cannot change to an inactive plan", <<>>, <<>>)
          /\ UNCHANGED subscriptions
       \/ /\ SubscriptionFound(subscriptionId)
          /\ PlanExists(newPlanId)
          /\ Plan(newPlanId).active
          /\ subscriptions[subscriptionId].stripeSubscriptionId
          /\ Plan(newPlanId).stripePriceId
          /\ lastCall' = Call("changePlan", subscriptionId, 0, "",
                              "GatewayError", <<"getSubscription">>, <<>>)
          /\ UNCHANGED subscriptions
       \/ /\ SubscriptionFound(subscriptionId)
          /\ PlanExists(newPlanId)
          /\ Plan(newPlanId).active
          /\ subscriptions' = RepoUpdate(subscriptions, subscriptionId,
                [planId |-> newPlanId, currency |-> Plan(newPlanId).currency,
                 metadata |-> subscriptions[subscriptionId].metadata
                              \cup {"previousPlanId", "planChangedAt"}])
          /\ lastCall' = Call("changePlan", subscriptionId, 0, "", "ok",
                              IF subscriptions[subscriptionId].stripeSubscriptionId
                                 /\ Plan(newPlanId).stripePriceId
                              THEN <<"getSubscription", "updateSubscription">>
                              ELSE <<>>, <<>>)

UpdateQuantity(subscriptionId, quantity) ==
    /\ UnchangedBilling
    /\ \/ /\ ~SubscriptionFound(subscriptionId)
          /\ lastCall' = Call("updateQuantity", subscriptionId, quantity, "",
                              "Subscription not found", <<>>, <<>>)
          /\ UNCHANGED subscriptions
       \/ /\ SubscriptionFound(subscriptionId)
          /\ quantity < 1
          /\ lastCall' = Call("updateQuantity", subscriptionId, quantity, "",
                              "Quantity must be at least 1", <<>>, <<>>)
          /\ UNCHANGED subscriptions
       \/ /\ SubscriptionFound(subscriptionId)
          /\ quantity >= 1
          /\ subscriptions[subscriptionId].stripeSubscriptionId
          /\ lastCall' = Call("updateQuantity", subscriptionId, quantity, "",
                              "GatewayError", <<"getSubscription">>, <<>>)
          /\ UNCHANGED subscriptions
       \/ /\ SubscriptionFound(subscriptionId)
          /\ quantity >= 1
          /\ subscriptions' = RepoUpdate(subscriptions, subscriptionId,
                [quantity |-> quantity,
                 metadata |-> subscriptions[subscriptionId].metadata
                              \cup {"previousQuantity", "quantityChangedAt"}])
          /\ lastCall' = Call("updateQuantity", subscriptionId, quantity, "", "ok",
                              IF subscriptions[subscriptionId].stripeSubscriptionId
                              THEN <<"getSubscription", "updateSubscription">>
                              ELSE <<>>, <<>>)

\* subscriptionRepository.findExpiredTrials(): trialing rows whose trialEnd has passed.
findExpiredTrials ==
    {s \in DOMAIN subscriptions :
        /\ subscriptions[s].status = "trialing"
        /\ subscriptions[s].trialEnd # NoDate
        /\ subscriptions[s].trialEnd < now}

\* A variant without the inner try/catch: the first update that throws ends the
\* batch and the error reaches the caller.
ProcessExpiredTrialsAborting(failing) ==
    /\ UnchangedBilling
    /\ failing \subseteq findExpiredTrials
    /\ LET done == {s \in findExpiredTrials : \A f \in failing : s < f}
       IN /\ subscriptions' =
                [s \in DOMAIN subscriptions |->
                    IF s \in done
                    THEN [subscriptions[s] EXCEPT !.status = "active", !.trialEnd = NoDate]
                    ELSE subscriptions[s]]
          /\ lastCall' = IF failing = {}
                         THEN Call("processExpiredTrials", 0, 0, "", "ok", <<>>,
                                   <<Cardinality(done), 0>>)
                         ELSE Call("processExpiredTrials", 0, 0, "", "Error", <<>>, <<>>)

\* processExpiredTrials(); failing is the set of rows whose update throws.
ProcessExpiredTrials(failing) ==
    /\ UnchangedBilling
    /\ failing \subseteq findExpiredTrials
    /\ subscriptions' =
          [s \in DOMAIN subscriptions |->
              IF s \in findExpiredTrials \ failing
              THEN [subscriptions[s] EXCEPT !.status = "active", !.trialEnd = NoDate]
              ELSE subscriptions[s]]
    /\ lastCall' = Call("processExpiredTrials", 0, 0, "", "ok", <<>>,
                        <<Cardinality(findExpiredTrials \ failing), Cardinality(failing)>>)

\* The clock advances by a day.
Tick ==
    /\ ticks < MaxTicks
    /\ now' = now + 1
    /\ ticks' = ticks + 1
    /\ UNCHANGED <<payments, refunds, invoices, intents, subscriptions, tasks, sync, lastCall>>

\* ------------------------------------------- BillingService, subscription side
\* The invoice createInvoiceFromSubscription persists.
createInvoiceFromSubscription(subscriptionId, subscription) ==
    [customerId |-> subscription.customerId, subscriptionId |-> subscriptionId,
     stripeInvoiceId |-> FALSE, status |-> "open", lineItems |-> <<>>,
     subtotal |-> subscription.quantity, tax |-> 0, total |-> subscription.quantity,
     amountPaid |-> 0, amountDue |-> subscription.quantity]

\* A variant that starts the next period a day after the old one ended and ends
\* it where the old one ended.
advanceWithGap(subscription) ==
    [currentPeriodStart |-> subscription.currentPeriodEnd + 1,
     currentPeriodEnd |-> subscription.currentPeriodEnd]

\* The fields advanceSubscriptionPeriod writes.
advanceSubscriptionPeriod(subscription) ==
    LET newPeriodStart == subscription.currentPeriodEnd
        newPeriodEnd == DayjsAdd(newPeriodStart, 1, "month")
    IN [currentPeriodStart |-> newPeriodStart, currentPeriodEnd |-> newPeriodEnd]

\* A variant that advances the period before it creates the invoice.
AdvanceBeforeInvoice(subscriptionId) ==
    /\ UNCHANGED <<payments, refunds, intents, now, ticks, tasks, sync>>
    /\ SubscriptionFound(subscriptionId)
    /\ subscriptions[subscriptionId].status = "active"
    /\ subscriptions' = RepoUpdate(subscriptions, subscriptionId,
          advanceSubscriptionPeriod(subscriptions[subscriptionId]))
    /\ \/ /\ lastCall' = Call("processEndOfPeriodBilling", subscriptionId, 0, "",
                              "RepositoryError: invoice create", <<>>, <<>>)
          /\ UNCHANGED invoices
       \/ /\ Len(invoices) < MaxInvoices
          /\ invoices' = Append(invoices,
                createInvoiceFromSubscription(subscriptionId,
                                              subscriptions[subscriptionId]))
          /\ lastCall' = Call("processEndOfPeriodBilling", subscriptionId, 0, "",
                              "ok", <<>>, <<>>)

ProcessEndOfPeriodBilling(subscriptionId) ==
    /\ UNCHANGED <<payments, refunds, intents, now, ticks, tasks, sync>>
    /\ \/ /\ ~SubscriptionFound(subscriptionId)
          /\ lastCall' = Call("processEndOfPeriodBilling", subscriptionId, 0, "",
                              "Subscription not found", <<>>, <<>>)
          /\ UNCHANGED <<subscriptions, invoices>>
       \/ /\ SubscriptionFound(subscriptionId)
          /\ subscriptions[subscriptionId].status # "active"
          \* returns null
          /\ lastCall' = Call("processEndOfPeriodBilling", subscriptionId, 0, "null",
                              "ok", <<>>, <<>>)
          /\ UNCHANGED <<subscriptions, invoices>>
       \/ /\ SubscriptionFound(subscriptionId)
          /\ subscriptions[subscriptionId].status = "active"
          \* invoiceRepository.create throws
          /\ lastCall' = Call("processEndOfPeriodBilling", subscriptionId, 0, "",
                              "RepositoryError: invoice create", <<>>, <<>>)
          /\ UNCHANGED <<subscriptions, invoices>>
       \/ /\ SubscriptionFound(subscriptionId)
          /\ subscriptions[subscriptionId].status = "active"
          /\ Len(invoices) < MaxInvoices
          \* subscriptionRepository.update throws after the invoice was created
          /\ invoices' = Append(invoices,
                createInvoiceFromSubscription(subscriptionId,
                                              subscriptions[subscriptionId]))
          /\ lastCall' = Call("processEndOfPeriodBilling", subscriptionId, 0, "",
                              "RepositoryError: subscription update", <<>>, <<>>)
          /\ UNCHANGED subscriptions
       \/ /\ SubscriptionFound(subscriptionId)
          /\ subscriptions[subscriptionId].status = "active"
          /\ Len(invoices) < MaxInvoices
          /\ invoices' = Append(invoices,
                createInvoiceFromSubscription(subscriptionId,
                                              subscriptions[subscriptionId]))
          /\ subscriptions' = RepoUpdate(subscriptions, subscriptionId,
                advanceSubscriptionPeriod(subscriptions[subscriptionId]))
          /\ lastCall' = Call("processEndOfPeriodBilling", subscriptionId, 0, "invoice",
                              "ok", <<>>, <<Len(invoices) + 1>>)

\* BillingService.getPlanById: a fixed mock plan whatever the id.
getPlanById(planId) ==
    [id |-> planId, amount |-> 9900, currency |-> "USD", interval |-> "month",
     intervalCount |-> 1, active |-> TRUE]

\* Math.round(x * 100) for x = num / den, den > 0: the nearest integer, a tie
\* going up.
RoundCents(num, den) == (200 * num + den) \div (2 * den)

\* A variant that prorates by the days used rather than the days remaining.
ProrationDaysUsed(subscription, changeDate) ==
    <<DiffDays(subscription.currentPeriodEnd, subscription.currentPeriodStart),
      DiffDays(changeDate, subscription.currentPeriodStart)>>

\* calculateProration's days: <<totalDays, remainingDays>>.
ProrationDays(subscription, changeDate) ==
    <<DiffDays(subscription.currentPeriodEnd, subscription.currentPeriodStart),
      DiffDays(subscription.currentPeriodEnd, changeDate)>>

\* calculateProration's result in cents: <<credit, charge, netAmount>>; <<>> when
\* totalDays = 0 makes the division yield NaN or an infinity.
ProrationResult(subscription, newPlanId, changeDate) ==
    LET totalDays == ProrationDays(subscription, changeDate)[1]
        remainingDays == ProrationDays(subscription, changeDate)[2]
        newPlan == getPlanById(newPlanId)
    IN IF totalDays = 0
       THEN <<>>
       ELSE <<RoundCents(subscription.quantity * remainingDays, totalDays),
              RoundCents(newPlan.amount * remainingDays, totalDays),
              RoundCents(newPlan.amount * remainingDays
                         - subscription.quantity * remainingDays, totalDays)>>

\* The change dates tried: the period's start and end, a day inside it, today.
ChangeDates(subscription) ==
    {subscription.currentPeriodStart, subscription.currentPeriodEnd,
     subscription.currentPeriodStart + 1, now}

CalculateProration(subscriptionId, newPlanId, changeDate) ==
    /\ UNCHANGED <<payments, refunds, invoices, intents, subscriptions, now, ticks, tasks, sync>>
    /\ \/ /\ ~SubscriptionFound(subscriptionId)
          /\ lastCall' = Call("calculateProration", subscriptionId, changeDate, newPlanId,
                              "Subscription not found", <<>>, <<>>)
       \/ /\ SubscriptionFound(subscriptionId)
          /\ changeDate \in ChangeDates(subscriptions[subscriptionId])
          /\ lastCall' = Call("calculateProration", subscriptionId, changeDate, newPlanId,
                              "ok", <<>>,
                              ProrationResult(subscriptions[subscriptionId], newPlanId,
                                              changeDate))

\* ------------------------------------------------ refundPayment, step by step
\* A refundPayment call in flight: where it is, its arguments, the payment row it
\* read and the amount it decided to refund.
IdleTask ==
    [pc |-> "idle", paymentId |-> 0, inputAmount |-> 0,
     payment |-> NewPayment("", 0, 0, 0, "none"), refundAmount |-> 0]

TaskIds == 1..MaxTasks

InFlight == Cardinality({t \in TaskIds : tasks[t].pc # "idle"})

\* await findById, then the checks up to the next await.
RefundRead(t, paymentId, inputAmount) ==
    /\ tasks[t].pc = "idle"
    /\ UNCHANGED <<payments, refunds, invoices, intents, subscriptions, now, ticks, sync>>
    /\ \/ /\ ~PaymentFound(paymentId)
          /\ lastCall' = Call("refundPayment", paymentId, inputAmount, "",
                              "Payment not found", <<>>, <<>>)
          /\ UNCHANGED tasks
       \/ /\ PaymentFound(paymentId)
          /\ RefundRejection(payments[paymentId], inputAmount) # "ok"
          /\ lastCall' = Call("refundPayment", paymentId, inputAmount, "",
                              RefundRejection(payments[paymentId], inputAmount),
                              <<>>, <<>>)
          /\ UNCHANGED tasks
       \/ /\ PaymentFound(paymentId)
          /\ RefundRejection(payments[paymentId], inputAmount) = "ok"
          /\ Len(refunds) + InFlight < MaxRefunds
          /\ tasks' = [tasks EXCEPT ![t] =
                [pc |-> IF payments[paymentId].stripePaymentIntentId # 0
                        THEN "createStripeRefund" ELSE "createRefund",
                 paymentId |-> paymentId, inputAmount |-> inputAmount,
                 payment |-> payments[paymentId],
                 refundAmount |-> refundAmountOf(payments[paymentId], inputAmount)]]
          /\ UNCHANGED lastCall

\* await stripeClient.createRefund
RefundGateway(t) ==
    /\ tasks[t].pc = "createStripeRefund"
    /\ UNCHANGED <<payments, refunds, invoices, intents, subscriptions, now, ticks, sync>>
    /\ \/ /\ tasks' = [tasks EXCEPT ![t] = IdleTask]
          /\ lastCall' = Call("refundPayment", tasks[t].paymentId, tasks[t].inputAmount,
                              "", "GatewayError", <<"createRefund">>, <<>>)
       \/ /\ tasks' = [tasks EXCEPT ![t].pc = "createRefund"]
          /\ UNCHANGED lastCall

\* await paymentRepository.createRefund
RefundCreate(t) ==
    /\ tasks[t].pc = "createRefund"
    /\ refunds' = Append(refunds,
          NewRefund(tasks[t].paymentId, tasks[t].payment, tasks[t].refundAmount))
    /\ tasks' = [tasks EXCEPT ![t].pc = "update"]
    /\ UNCHANGED <<payments, invoices, intents, subscriptions, now, ticks, sync, lastCall>>

\* await paymentRepository.update, computed from the row read at the start
RefundWrite(t) ==
    /\ tasks[t].pc = "update"
    /\ payments' = RepoUpdate(payments, tasks[t].paymentId,
          RefundedFields(tasks[t].payment, tasks[t].refundAmount))
    /\ tasks' = [tasks EXCEPT ![t] = IdleTask]
    /\ lastCall' = Call("refundPayment", tasks[t].paymentId, tasks[t].inputAmount, "",
                        "ok", RefundStripeCalls(tasks[t].payment),
                        <<tasks[t].refundAmount>>)
    /\ UNCHANGED <<refunds, invoices, intents, subscriptions, now, ticks, sync>>

\* ------------------------------------------------------------ RampSyncService
MAX_RETRIES == 3

RETRY_DELAY_MS == 1000

\* The three syncs of fullSync, in the order it awaits them.
SyncResources == <<"transaction", "bill", "reimbursement">>

ResourceIndex(resource) == CHOOSE i \in 1..3 : SyncResources[i] = resource

\* An entry of a page as the gateway may send it: an object, or null, on which
\* every property read throws.
ItemKinds == {"object", "null"}

PageItems == UNION {[1..n -> ItemKinds] : n \in 0..MaxItems}

\* No fullSync call in progress. cursor and next are 0 for undefined; requests,
\* responses and delays record the list calls made, the pages received and the
\* delays awaited.
IdleSync ==
    [pc |-> "idle", resource |-> "transaction", cursor |-> 0, attempt |-> 1,
     items |-> <<>>, next |-> 0, idx |-> 1,
     synced |-> [r \in 1..3 |-> 0], errors |-> <<>>,
     requests |-> <<>>, responses |-> <<>>, delays |-> <<>>]

UnchangedBySync == UNCHANGED <<payments, refunds, invoices, intents, subscriptions, now, ticks, tasks>>

\* fullSync is called: syncTransactions starts with cursor undefined.
FullSync ==
    /\ sync.pc = "idle"
    /\ UnchangedBySync
    /\ sync' = [IdleSync EXCEPT !.pc = "fetch"]
    /\ UNCHANGED lastCall

\* What fullSync returns: success, the three counts and the errors.
SyncResult(synced, errors) ==
    <<errors = <<>>, synced[1], synced[2], synced[3], errors>>

\* The loop of one resource has ended: the next sync starts, or fullSync returns.
SyncAfterLoop(state) ==
    IF state.resource = "reimbursement"
    THEN [state EXCEPT !.pc = "done"]
    ELSE [state EXCEPT !.pc = "fetch",
                       !.resource = SyncResources[ResourceIndex(state.resource) + 1],
                       !.cursor = 0, !.attempt = 1, !.items = <<>>, !.next = 0,
                       !.idx = 1]

CallAfterLoop(state) ==
    IF state.resource = "reimbursement"
    THEN Call("fullSync", 0, 0, "", "ok", <<>>, SyncResult(state.synced, state.errors))
    ELSE lastCall

\* A variant that gives up after the first failed attempt.
RetryNever(attempt) == FALSE

\* fetchTransactionsWithRetry: another attempt follows a failed one.
RetryAllowed(attempt) == attempt < MAX_RETRIES

\* One await of rampClient.listTransactions / listBills / listReimbursements
\* with start = cursor. The gateway answers with a page and maybe a next
\* cursor, with something that is not a list, or fails.
SyncFetch ==
    /\ sync.pc = "fetch"
    /\ UnchangedBySync
    /\ LET request == [resource |-> sync.resource, cursor |-> sync.cursor,
                       attempt |-> sync.attempt]
           asked == [sync EXCEPT !.requests = Append(@, request)]
       IN \/ \E items \in PageItems, next \in {0, sync.cursor + 1} :
                /\ next < MaxPages
                /\ sync' = [asked EXCEPT !.pc = "process", !.items = items,
                                         !.next = next, !.idx = 1,
                                         !.responses = Append(@,
                                             [resource |-> sync.resource,
                                              cursor |-> sync.cursor, next |-> next])]
                /\ UNCHANGED lastCall
          \/ \* transactions is not an array: break
             \E next \in {0, sync.cursor + 1} :
                /\ next < MaxPages
                /\ sync.resource = "transaction"
                /\ LET got == [asked EXCEPT !.next = next,
                                           !.responses = Append(@,
                                               [resource |-> sync.resource,
                                                cursor |-> sync.cursor, next |-> next])]
                   IN /\ sync' = SyncAfterLoop(got)
                      /\ lastCall' = CallAfterLoop(got)
          \/ \* the call throws and fetchTransactionsWithRetry tries again
             /\ sync.resource = "transaction"
             /\ RetryAllowed(sync.attempt)
             /\ sync' = [asked EXCEPT !.pc = "delay"]
             /\ UNCHANGED lastCall
          \/ \* the call throws and the error leaves fullSync
             /\ sync.resource = "transaction" => ~RetryAllowed(sync.attempt)
             /\ sync' = [asked EXCEPT !.pc = "done"]
             /\ lastCall' = Call("fullSync", 0, 0, "", "GatewayError", <<>>, <<>>)

\* await this.delay(RETRY_DELAY_MS * attempt), then the next attempt.
SyncDelay ==
    /\ sync.pc = "delay"
    /\ UnchangedBySync
    /\ sync' = [sync EXCEPT !.pc = "fetch",
                            !.delays = Append(@, RETRY_DELAY_MS * sync.attempt),
                            !.attempt = @ + 1]
    /\ UNCHANGED lastCall

\* One pass of the for loop. processTransaction, processBill and
\* processReimbursement read fields of the item and store nothing: on an object
\* they return; on null the read of its id throws, and the catch block reads
\* the id again to build the SyncError, which throws out of the loop.
SyncProcessItem ==
    /\ sync.pc = "process"
    /\ sync.idx <= Len(sync.items)
    /\ UnchangedBySync
    /\ \/ /\ sync.items[sync.idx] = "object"
          /\ sync' = [sync EXCEPT !.idx = @ + 1,
                                  !.synced[ResourceIndex(sync.resource)] = @ + 1]
          /\ UNCHANGED lastCall
       \/ /\ sync.items[sync.idx] = "null"
          /\ sync' = [sync EXCEPT !.pc = "done"]
          /\ lastCall' = Call("fullSync", 0, 0, "", "TypeError", <<>>, <<>>)

\* cursor = response.page?.next; while (cursor).
SyncPageEnd ==
    /\ sync.pc = "process"
    /\ sync.idx > Len(sync.items)
    /\ UnchangedBySync
    /\ IF sync.next # 0
       THEN /\ sync' = [sync EXCEPT !.pc = "fetch", !.cursor = sync.next,
                                    !.attempt = 1]
            /\ UNCHANGED lastCall
       ELSE /\ sync' = SyncAfterLoop([sync EXCEPT !.cursor = 0])
            /\ lastCall' = CallAfterLoop(sync)

\* ------------------------------------------------------------ specifications
StartDays == {30}

Init ==
    /\ payments = <<>>
    /\ refunds = <<>>
    /\ invoices = <<>>
    /\ intents = 0
    /\ subscriptions = <<>>
    /\ now \in StartDays
    /\ ticks = 0
    /\ tasks = [t \in TaskIds |-> IdleTask]
    /\ sync = IdleSync
    /\ lastCall = NoCall

PaymentIds == 1..MaxPayments

InvoiceIds == 1..MaxInvoices

SubscriptionIds == 1..MaxSubscriptions

StripeCustomers == {c \in Customers : HasStripeCustomerId(c)}

\* Payments and refunds: every PaymentService call and the Stripe webhook.
NextPayments ==
    \/ \E c \in Customers \cup {MissingCustomer}, a \in Amounts : CreatePayment(c, 0, a)
    \/ \E p \in PaymentIds : ConfirmPayment(p)
    \/ \E p \in PaymentIds, a \in {0, 5} : CapturePayment(p, a)
    \/ \E p \in PaymentIds : CancelPayment(p)
    \/ \E p \in PaymentIds, a \in RefundInputs : RefundPayment(p, a)
    \/ \E p \in PaymentIds : RetryFailedPayment(p)
    \/ \E v \in BOOLEAN, t \in StripeEventTypes, o \in 1..MaxIntents :
        HandleStripeWebhook(v, t, o)

SpecPayments == Init /\ [][NextPayments]_vars

\* Invoices: every call that writes an invoice row.
NextInvoices ==
    \/ \E c \in Customers, l \in LineInputLists : CreateInvoice(c, l)
    \/ \E i \in InvoiceIds, l \in LineInputs : AddLineItem(i, l)
    \/ \E i \in InvoiceIds, l \in 1..MaxLineItems : RemoveLineItem(i, l)
    \/ \E i \in InvoiceIds : UpdateInvoice(i)
    \/ \E i \in InvoiceIds : FinalizeInvoice(i)
    \/ \E i \in InvoiceIds : SendInvoice(i)
    \/ \E i \in InvoiceIds : PayInvoice(i)
    \/ \E i \in InvoiceIds : VoidInvoice(i)
    \/ \E i \in InvoiceIds : MarkUncollectible(i)
    \/ \E i \in InvoiceIds : BillingRetryFailedPayment(i)
    \/ \E c \in Customers, i \in InvoiceIds : ApplyCredits(c, i)
    \/ \E c \in StripeCustomers, i \in InvoiceIds, a \in Amounts : CreatePayment(c, i, a)
    \/ \E p \in PaymentIds : ConfirmPayment(p)
    \/ \E p \in PaymentIds, a \in {0, 5} : CapturePayment(p, a)
    \/ \E t \in {"payment_intent.succeeded", "payment_intent.payment_failed"},
          o \in 1..MaxIntents : HandleStripeWebhook(TRUE, t, o)
    \/ \E c \in Customers : CreateSubscription(c, "plan_month", 0, 0, FALSE, NoDate)
    \/ \E s \in SubscriptionIds : ProcessEndOfPeriodBilling(s)

SpecInvoices == Init /\ [][NextInvoices]_vars

\* Two refundPayment calls interleaving at their awaits.
NextRefundRace ==
    \/ \E c \in StripeCustomers \cup {"cus_local"}, a \in Amounts : CreatePayment(c, 0, a)
    \/ \E t \in TaskIds, p \in PaymentIds, a \in RefundInputs : RefundRead(t, p, a)
    \/ \E t \in TaskIds : RefundGateway(t)
    \/ \E t \in TaskIds : RefundCreate(t)
    \/ \E t \in TaskIds : RefundWrite(t)

SpecRefundRace == Init /\ [][NextRefundRace]_vars

\* Subscriptions: the lifecycle calls, end-of-period billing, proration, the clock.
NextSubscriptions ==
    \/ \E c \in Customers \cup {MissingCustomer},
          pl \in {"plan_month", "plan_inactive", MissingPlan}, td \in {0, 1} :
        CreateSubscription(c, pl, 0, td, FALSE, NoDate)
    \/ \E s \in SubscriptionIds, u \in UpdateInputs : UpdateSubscription(s, u)
    \/ \E s \in SubscriptionIds, im \in BOOLEAN : CancelSubscription(s, im)
    \/ \E s \in SubscriptionIds : ResumeSubscription(s)
    \/ \E s \in SubscriptionIds : PauseSubscription(s)
    \/ \E s \in SubscriptionIds : UnpauseSubscription(s)
    \/ \E s \in SubscriptionIds, pl \in {"plan_week", "plan_inactive", MissingPlan} :
        ChangePlan(s, pl)
    \/ \E s \in SubscriptionIds, q \in {0, 2} : UpdateQuantity(s, q)
    \/ \E f \in SUBSET SubscriptionIds : ProcessExpiredTrials(f)
    \/ \E s \in SubscriptionIds : ProcessEndOfPeriodBilling(s)

SpecSubscriptions == Init /\ [][NextSubscriptions]_vars

\* Proration over the subscriptions createSubscription and billing produce.
NextBilling ==
    \/ \E c \in Customers, pl \in PlanIds, q \in {0, 3, 30, 9901},
          a \in {NoDate, now, now + 8} :
        CreateSubscription(c, pl, q, 0, FALSE, a)
    \/ \E s \in SubscriptionIds : ProcessEndOfPeriodBilling(s)
    \/ \E s \in SubscriptionIds, pl \in {"plan_month", "plan_week"},
          d \in UNION {ChangeDates(subscriptions[x]) : x \in DOMAIN subscriptions} :
        CalculateProration(s, pl, d)
    \/ Tick

SpecBilling == Init /\ [][NextBilling]_vars

\* Refunds, captures of the whole amount and the payment webhook: a payment's
\* amount never changes, so refundedAmount >= amount exactly when a refund took
\* all that was left.
NextRefunds ==
    \/ \E c \in Customers, a \in Amounts : CreatePayment(c, 0, a)
    \/ \E p \in PaymentIds, a \in RefundInputs : RefundPayment(p, a)
    \/ \E p \in PaymentIds : CapturePayment(p, 0)
    \/ \E t \in {"payment_intent.succeeded", "payment_intent.payment_failed"},
          o \in 1..MaxIntents : HandleStripeWebhook(TRUE, t, o)

SpecRefunds == Init /\ [][NextRefunds]_vars

\* Webhooks: deliveries to both endpoints, with and without a valid signature
\* and a data object, over payments in every status.
NextWebhooks ==
    \/ \E c \in StripeCustomers, a \in Amounts : CreatePayment(c, 0, a)
    \/ \E p \in PaymentIds, a \in RefundInputs : RefundPayment(p, a)
    \/ \E v \in BOOLEAN, t \in StripeEventTypes, o \in {NoObject} \cup (1..MaxIntents) :
        HandleStripeWebhook(v, t, o)
    \/ \E v \in BOOLEAN, t \in RampEventTypes, o \in {NoObject, 1} :
        HandleRampWebhook(v, t, o)

SpecWebhooks == Init /\ [][NextWebhooks]_vars

\* Trials: subscriptions as createSubscription stores them for a customer
\* without a gateway identity, with no trial or a trial of one or two days, then
\* the clock and the expired-trials batch.
TrialSubscription(trialDays) ==
    NewSubscription("cus_local", "plan_month", FALSE,
                    IF trialDays # 0 THEN "trialing" ELSE "active", 1,
                    30, calculatePeriodEnd(30, "month", 1), FALSE,
                    IF trialDays # 0 THEN 30 ELSE NoDate,
                    IF trialDays # 0 THEN 30 + trialDays ELSE NoDate)

InitTrials ==
    /\ payments = <<>>
    /\ refunds = <<>>
    /\ invoices = <<>>
    /\ intents = 0
    /\ subscriptions \in [1..MaxTrialSubs -> {TrialSubscription(d) : d \in 0..2}]
    /\ now = 30
    /\ ticks = 0
    /\ tasks = [t \in TaskIds |-> IdleTask]
    /\ sync = IdleSync
    /\ lastCall = NoCall

NextTrials ==
    \/ Tick
    \/ \E f \in SUBSET (1..MaxTrialSubs) : ProcessExpiredTrials(f)
    \/ \E s \in 1..MaxTrialSubs : PauseSubscription(s)

SpecTrials == InitTrials /\ [][NextTrials]_vars

\* Webhook deliveries over stored records: two invoices as createInvoice stores
\* them, two payments as createPayment stores them while the gateway has not
\* settled the intent (intent ids 1 and 2, the first payment linked to invoice 1,
\* the second to invoice 2 or to none), and one subscription. Events name
\* intent 1, 2, an intent no payment has, or carry no object.
UnknownIntent == 3

\* The Stripe event types delivered over them.
RecordEventTypes ==
    {"payment_intent.succeeded", "payment_intent.payment_failed", "invoice.paid",
     "customer.subscription.created", "customer.subscription.updated",
     "customer.subscription.deleted", "unknown.type"}

StoredInvoice(input) ==
    NewInvoice("cus_stripe", 0, 0, "draft", <<NewLineItem(1, input)>>)

InitWebhookRecords ==
    /\ invoices \in [1..2 -> {StoredInvoice(l) : l \in LineInputs}]
    /\ payments \in
          {<<NewPayment("cus_stripe", 1, 1, 10, s), NewPayment("cus_stripe", i, 2, 20, "pending")>> :
              i \in {0, 2}, s \in {"pending", "processing"}}
    /\ refunds = <<>>
    /\ intents = 2
    /\ subscriptions = <<TrialSubscription(0)>>
    /\ now = 30
    /\ ticks = 0
    /\ tasks = [t \in TaskIds |-> IdleTask]
    /\ sync = IdleSync
    /\ lastCall = NoCall

NextWebhookRecords ==
    \/ \E v \in BOOLEAN, t \in RecordEventTypes,
          o \in {NoObject, 1, 2, UnknownIntent} : HandleStripeWebhook(v, t, o)
    \/ \E v \in BOOLEAN, t \in RampEventTypes,
          o \in {NoObject, 1} : HandleRampWebhook(v, t, o)

SpecWebhookRecords == InitWebhookRecords /\ [][NextWebhookRecords]_vars

\* One fullSync call against a gateway that answers each list call as it likes.
NextSync ==
    \/ FullSync
    \/ SyncFetch
    \/ SyncDelay
    \/ SyncProcessItem
    \/ SyncPageEnd

SpecSync == Init /\ [][NextSync]_vars

\* --------------------------------------------------------------- properties
\* C1: delivering the same payment_intent.succeeded event a second time, right
\* after the first was answered 200, leaves every payment and every invoice as
\* the first delivery left them.
C1_WebhookIdempotent ==
    [][\A o \in 1..MaxIntents :
          (/\ lastCall = Call("handleStripeWebhook", o, 0, "payment_intent.succeeded",
                              "200", <<>>, <<>>)
           /\ HandleStripeWebhook(TRUE, "payment_intent.succeeded", o))
          => /\ payments' = payments
             /\ invoices' = invoices]_vars

\* C2: every invoice has amountPaid + amountDue = total in every state.
C2_InvoiceBalance ==
    \A i \in DOMAIN invoices :
        invoices[i].amountPaid + invoices[i].amountDue = invoices[i].total

\* C3: every invoice has amountDue >= 0 in every state.
C3_AmountDueNonNegative ==
    \A i \in DOMAIN invoices : invoices[i].amountDue >= 0

\* C4: a payment starts with refundedAmount = 0 <= amount, a refundPayment call
\* keeps refundedAmount <= amount, and a call for more than amount -
\* refundedAmount throws, calls no gateway, creates no Refund and leaves the
\* payment rows as they were.
C4_RefundBound ==
    [][/\ \A p \in DOMAIN payments' \ DOMAIN payments :
             /\ payments'[p].refundedAmount = 0
             /\ payments'[p].refundedAmount <= payments'[p].amount
       /\ \A p \in DOMAIN payments, a \in RefundInputs :
             RefundPayment(p, a) =>
                /\ payments[p].refundedAmount <= payments[p].amount
                      => payments'[p].refundedAmount <= payments'[p].amount
                /\ (IF a # 0 THEN a ELSE payments[p].amount - payments[p].refundedAmount)
                      > payments[p].amount - payments[p].refundedAmount
                      => /\ lastCall'.outcome # "ok"
                         /\ lastCall'.stripe = <<>>
                         /\ refunds' = refunds
                         /\ payments' = payments]_vars

\* A refund for more than what is left of a payment that was already refunded
\* in part has just been refused.
C4_Witness ==
    /\ lastCall.op = "refundPayment"
    /\ lastCall.outcome = "Refund amount exceeds available amount"
    /\ lastCall.id \in DOMAIN payments
    /\ payments[lastCall.id].refundedAmount > 0
    /\ payments[lastCall.id].refundedAmount < payments[lastCall.id].amount
    /\ Len(refunds) = 1

\* C5: when refundPayment calls interleave, the Refund rows of a payment never
\* sum to more than its amount, and once no call is in flight its
\* refundedAmount is that sum.
C5_RefundAtomic ==
    \A p \in DOMAIN payments :
        LET refunded == SumSeq([i \in 1..Len(refunds) |->
                                  IF refunds[i].paymentId = p THEN refunds[i].amount
                                  ELSE 0])
        IN /\ refunded <= payments[p].amount
           /\ (\A t \in TaskIds : tasks[t].pc = "idle")
                 => payments[p].refundedAmount = refunded

\* C6: no step changes the row of a subscription whose status is 'canceled'.
C6_CanceledTerminal ==
    [][\A s \in DOMAIN subscriptions :
          subscriptions[s].status = "canceled" => subscriptions'[s] = subscriptions[s]]_vars

\* C7: resumeSubscription on a subscription whose status is 'canceled' throws,
\* calls no gateway and leaves the row, so cancelAtPeriodEnd, canceledAt and
\* status, as it was.
C7_ResumeCanceledFails ==
    [][\A s \in DOMAIN subscriptions :
          (ResumeSubscription(s) /\ subscriptions[s].status = "canceled")
          => /\ lastCall'.op = "resumeSubscription"
             /\ lastCall'.outcome = "Cannot resume a canceled subscription"
             /\ lastCall'.stripe = <<>>
             /\ subscriptions'[s].cancelAtPeriodEnd = subscriptions[s].cancelAtPeriodEnd
             /\ subscriptions'[s].canceledAt = subscriptions[s].canceledAt
             /\ subscriptions'[s].status = subscriptions[s].status]_vars

\* resumeSubscription has just been refused on a canceled subscription that the
\* gateway knows.
C7_Witness ==
    /\ lastCall.op = "resumeSubscription"
    /\ lastCall.outcome = "Cannot resume a canceled subscription"
    /\ lastCall.id \in DOMAIN subscriptions
    /\ subscriptions[lastCall.id].status = "canceled"
    /\ subscriptions[lastCall.id].stripeSubscriptionId
    /\ subscriptions[lastCall.id].canceledAt # NoDate

\* C8: a processEndOfPeriodBilling call that bills an active subscription sets
\* currentPeriodStart to the previous currentPeriodEnd and currentPeriodEnd to a
\* later day than before.
C8_PeriodMonotonic ==
    [][\A s \in DOMAIN subscriptions :
          (/\ ProcessEndOfPeriodBilling(s)
           /\ lastCall'.outcome = "ok"
           /\ lastCall'.arg = "invoice")
          => /\ subscriptions[s].status = "active"
             /\ subscriptions'[s].currentPeriodStart = subscriptions[s].currentPeriodEnd
             /\ subscriptions'[s].currentPeriodEnd > subscriptions[s].currentPeriodEnd]_vars

\* A subscription created on 31 January has been billed: its period now runs
\* from the old end to a later day.
C8_Witness ==
    /\ lastCall.op = "processEndOfPeriodBilling"
    /\ lastCall.arg = "invoice"
    /\ lastCall.id \in DOMAIN subscriptions
    /\ subscriptions[lastCall.id].currentPeriodStart = DayNumber(2024, 2, 29)
    /\ subscriptions[lastCall.id].currentPeriodEnd = DayNumber(2024, 3, 29)
    /\ Len(invoices) = 1

\* C9: after a processEndOfPeriodBilling call that bills a subscription, the new
\* currentPeriodEnd is the new currentPeriodStart plus one interval of the
\* subscription's plan, as calculatePeriodEnd computes it.
C9_PeriodLength ==
    [][\A s \in DOMAIN subscriptions :
          (/\ ProcessEndOfPeriodBilling(s)
           /\ lastCall'.outcome = "ok"
           /\ lastCall'.arg = "invoice")
          => subscriptions'[s].currentPeriodEnd =
                calculatePeriodEnd(subscriptions'[s].currentPeriodStart,
                                   Plan(subscriptions'[s].planId).interval,
                                   Plan(subscriptions'[s].planId).intervalCount)]_vars

\* C10: for a subscription whose period has at least one day, calculateProration
\* returns a credit of the subscription's quantity (in cents, 100 times it) when
\* changeDate is currentPeriodStart, and of 0 when it is currentPeriodEnd.
C10_ProrationBoundary ==
    [][\A s \in DOMAIN subscriptions, pl \in PlanIds :
          \A d \in {subscriptions[s].currentPeriodStart, subscriptions[s].currentPeriodEnd} :
              (/\ CalculateProration(s, pl, d)
               /\ subscriptions[s].currentPeriodEnd > subscriptions[s].currentPeriodStart)
              => /\ lastCall'.outcome = "ok"
                 /\ d = subscriptions[s].currentPeriodStart
                       => lastCall'.value[1] = 100 * subscriptions[s].quantity
                 /\ d = subscriptions[s].currentPeriodEnd
                       => lastCall'.value[1] = 0]_vars

\* calculateProration has just been asked at the start of the period of a
\* subscription of quantity 30 and returned a credit of 30.00.
C10_Witness ==
    /\ lastCall.op = "calculateProration"
    /\ lastCall.outcome = "ok"
    /\ lastCall.id \in DOMAIN subscriptions
    /\ subscriptions[lastCall.id].quantity = 30
    /\ lastCall.amount = subscriptions[lastCall.id].currentPeriodStart
    /\ subscriptions[lastCall.id].currentPeriodEnd
          > subscriptions[lastCall.id].currentPeriodStart
    /\ lastCall.value = <<3000, 990000, 987000>>

\* C11: for a subscription whose period has totalDays = 0, calculateProration
\* returns credit 0 and charge and netAmount equal to the amount of the plan
\* newPlanId (in cents, 100 times it).
C11_ProrationZeroGuard ==
    [][\A s \in DOMAIN subscriptions, pl \in PlanIds :
          \A d \in ChangeDates(subscriptions[s]) :
              (/\ CalculateProration(s, pl, d)
               /\ DiffDays(subscriptions[s].currentPeriodEnd,
                           subscriptions[s].currentPeriodStart) = 0)
              => /\ lastCall'.outcome = "ok"
                 /\ lastCall'.value = <<0, 100 * Plan(pl).amount, 100 * Plan(pl).amount>>]_vars

\* C12: for a subscription whose period has totalDays > 0 and a changeDate
\* inside the period, calculateProration returns (to the cent) credit =
\* quantity / totalDays * remainingDays, charge = amount of the plan newPlanId /
\* totalDays * remainingDays and netAmount = charge - credit.
C12_ProrationFormula ==
    [][\A s \in DOMAIN subscriptions, pl \in PlanIds :
          \A d \in ChangeDates(subscriptions[s]) :
              LET subscription == subscriptions[s]
                  totalDays == DiffDays(subscription.currentPeriodEnd,
                                        subscription.currentPeriodStart)
                  remainingDays == DiffDays(subscription.currentPeriodEnd, d)
              IN (/\ CalculateProration(s, pl, d)
                  /\ totalDays > 0
                  /\ subscription.currentPeriodStart <= d
                  /\ d <= subscription.currentPeriodEnd)
                 => /\ lastCall'.outcome = "ok"
                    /\ lastCall'.value[1] =
                          RoundCents(subscription.quantity * remainingDays, totalDays)
                    /\ lastCall'.value[2] =
                          RoundCents(Plan(pl).amount * remainingDays, totalDays)
                    /\ lastCall'.value[3] =
                          RoundCents((Plan(pl).amount - subscription.quantity)
                                     * remainingDays, totalDays)]_vars

\* C13: for a period with totalDays > 0, each of credit, charge and netAmount
\* that calculateProration returns is the unrounded value rounded to whole
\* cents with a half cent going away from zero, also when the value is negative.
C13_ProrationRounding ==
    [][\A s \in DOMAIN subscriptions, pl \in PlanIds :
          \A d \in ChangeDates(subscriptions[s]) :
              LET subscription == subscriptions[s]
                  totalDays == DiffDays(subscription.currentPeriodEnd,
                                        subscription.currentPeriodStart)
                  remainingDays == DiffDays(subscription.currentPeriodEnd, d)
                  unrounded == <<subscription.quantity * remainingDays,
                                 getPlanById(pl).amount * remainingDays,
                                 (getPlanById(pl).amount - subscription.quantity)
                                    * remainingDays>>
                  halfAway(num) ==
                      IF num >= 0
                      THEN (200 * num + totalDays) \div (2 * totalDays)
                      ELSE 0 - ((200 * (0 - num) + totalDays) \div (2 * totalDays))
              IN (CalculateProration(s, pl, d) /\ totalDays > 0)
                 => /\ lastCall'.outcome = "ok"
                    /\ \A i \in 1..3 : lastCall'.value[i] = halfAway(unrounded[i])]_vars

\* C14: a refundPayment call that refunds all that is left of a succeeded
\* payment sets status 'refunded' and refundedAmount = amount, and every
\* refundPayment call on a payment whose whole amount has been refunded throws
\* and leaves the payment rows and the refund rows as they were.
C14_FullRefundEndState ==
    [][\A p \in DOMAIN payments, a \in RefundInputs :
          RefundPayment(p, a) =>
             /\ (/\ lastCall'.outcome = "ok"
                 /\ lastCall'.value = <<payments[p].amount - payments[p].refundedAmount>>)
                   => /\ payments'[p].status = "refunded"
                      /\ payments'[p].refundedAmount = payments'[p].amount
             /\ payments[p].refundedAmount >= payments[p].amount
                   => /\ lastCall'.outcome # "ok"
                      /\ payments' = payments
                      /\ refunds' = refunds]_vars

\* C15: no step moves a payment's status backward in the order pending or
\* processing, failed or canceled, succeeded, partially_refunded, refunded,
\* except retryFailedPayment on a failed payment, which stores a new payment
\* intent id.
C15_PaymentStatusForward ==
    [][\A p \in DOMAIN payments :
          LET rank(status) ==
                  CASE status \in {"pending", "processing"} -> 1
                    [] status \in {"failed", "canceled"} -> 2
                    [] status = "succeeded" -> 3
                    [] status = "partially_refunded" -> 4
                    [] status = "refunded" -> 5
          IN \/ rank(payments'[p].status) >= rank(payments[p].status)
             \/ /\ payments[p].status = "failed"
                /\ RetryFailedPayment(p)
                /\ payments'[p].stripePaymentIntentId # payments[p].stripePaymentIntentId]_vars

\* C16: a delivery to either webhook endpoint whose signature does not verify
\* is answered 401 INVALID_SIGNATURE and changes no payment, invoice, refund or
\* subscription.
C16_WebhookAuthentication ==
    [][\A t \in StripeEventTypes \cup RampEventTypes, o \in 0..MaxIntents :
          (HandleStripeWebhook(FALSE, t, o) \/ HandleRampWebhook(FALSE, t, o))
          => /\ lastCall'.outcome = "401"
             /\ lastCall'.value = <<"INVALID_SIGNATURE">>
             /\ UNCHANGED <<payments, invoices, refunds, subscriptions>>]_vars

\* A delivery with a bad signature was answered 401 for an event that, had it
\* been accepted, would have changed a succeeded payment.
C16_Witness ==
    /\ lastCall.op = "handleStripeWebhook"
    /\ lastCall.outcome = "401"
    /\ lastCall.arg = "payment_intent.payment_failed"
    /\ \E p \in DOMAIN payments :
          /\ payments[p].stripePaymentIntentId = lastCall.id
          /\ payments[p].status = "succeeded"

C18_CancelSemantics ==
    [][\A s \in DOMAIN subscriptions :
          /\ (CancelSubscription(s, FALSE) /\ lastCall'.outcome = "ok")
             => /\ subscriptions'[s].cancelAtPeriodEnd
                /\ subscriptions'[s].status = subscriptions[s].status
                /\ subscriptions'[s].endedAt = subscriptions[s].endedAt
          /\ (CancelSubscription(s, TRUE) /\ lastCall'.outcome = "ok")
             => /\ subscriptions'[s].status = "canceled"
                /\ subscriptions'[s].endedAt = now
                /\ subscriptions[s].stripeSubscriptionId
                   => lastCall'.stripe = <<"subscriptions.cancel">>]_vars

\* A subscription with a gateway subscription was canceled at period end and
\* is still active and not ended.
C18_Witness ==
    /\ lastCall.op = "cancelSubscription"
    /\ lastCall.arg = "at_period_end"
    /\ lastCall.outcome = "ok"
    /\ lastCall.stripe = <<"subscriptions.update">>
    /\ lastCall.id \in DOMAIN subscriptions
    /\ subscriptions[lastCall.id].status = "active"
    /\ subscriptions[lastCall.id].cancelAtPeriodEnd
    /\ subscriptions[lastCall.id].endedAt = NoDate

\* C19: a createSubscription call that returns stores status 'trialing' with
\* trialEnd set whenever trialDays is given or the plan defines
\* trialPeriodDays; with no trial and a customer or plan without a gateway
\* identity it stores status 'active'; and without a gateway currentPeriodEnd
\* is currentPeriodStart plus plan.interval times plan.intervalCount.
C19_InitialSubscriptionState ==
    [][\A c \in Customers, pl \in PlanIds, q \in {0, 3, 30, 9901}, td \in {0, 1},
          a \in {NoDate, now, now + 8} :
          (CreateSubscription(c, pl, q, td, FALSE, a) /\ lastCall'.outcome = "ok")
          => LET created == subscriptions'[lastCall'.id]
                 trialApplies == td # 0 \/ Plan(pl).trialPeriodDays # 0
                 gateway == HasStripeCustomerId(c) /\ Plan(pl).stripePriceId
             IN /\ trialApplies => /\ created.status = "trialing"
                                    /\ created.trialEnd # NoDate
                /\ (~trialApplies /\ ~gateway) => created.status = "active"
                /\ ~gateway
                   => created.currentPeriodEnd
                         = calculatePeriodEnd(created.currentPeriodStart,
                                              Plan(pl).interval, Plan(pl).intervalCount)]_vars

\* C20: every stored subscription has quantity >= 1 in every state.
C20_QuantityAtLeastOne ==
    \A s \in DOMAIN subscriptions : subscriptions[s].quantity >= 1

\* C21: a processExpiredTrials call sets every expired trial whose update did
\* not throw to 'active' with trialEnd cleared, leaves every other subscription
\* as it was, goes on after an update that throws, and returns processed = the
\* number of rows updated and failed = the number of updates that threw, which
\* add up to the number of expired trials found.
C21_ExpiredTrialsBatch ==
    [][\A f \in SUBSET DOMAIN subscriptions :
          ProcessExpiredTrials(f)
          => LET expired == {s \in DOMAIN subscriptions :
                                /\ subscriptions[s].status = "trialing"
                                /\ subscriptions[s].trialEnd # NoDate
                                /\ subscriptions[s].trialEnd < now}
             IN /\ \A s \in expired \ f :
                      /\ subscriptions'[s].status = "active"
                      /\ subscriptions'[s].trialEnd = NoDate
                /\ \A s \in (DOMAIN subscriptions \ expired) \cup f :
                      subscriptions'[s] = subscriptions[s]
                /\ lastCall'.outcome = "ok"
                /\ lastCall'.value = <<Cardinality(expired \ f), Cardinality(f)>>
                /\ lastCall'.value[1] + lastCall'.value[2] = Cardinality(expired)]_vars

\* A batch over two expired trials and one running trial was answered
\* {processed: 1, failed: 1}: the update of the first expired trial threw, the
\* second one was still flipped, and the running trial is untouched.
C21_Witness ==
    /\ lastCall.op = "processExpiredTrials"
    /\ lastCall.value = <<1, 1>>
    /\ Len(subscriptions) = 3
    /\ subscriptions[1].status = "trialing" /\ subscriptions[1].trialEnd < now
    /\ subscriptions[2].status = "active" /\ subscriptions[2].trialEnd = NoDate
    /\ subscriptions[2].trialStart # NoDate
    /\ subscriptions[3].status = "trialing" /\ subscriptions[3].trialEnd >= now

\* C22: a page of syncTransactions is asked for at most 3 times; before
\* attempt n + 1 the sync waits RETRY_DELAY_MS * n; a failed attempt before the
\* third leads to another attempt and records no SyncError, a successful one
\* lets the sync go on with the page, and a failed third attempt ends fullSync
\* with the error and no SyncResult.
C22_BoundedFetchRetry ==
    [][/\ LET retried == SelectSeq(sync'.requests, LAMBDA r : r.attempt > 1)
          IN /\ \A i \in DOMAIN sync'.requests :
                   sync'.requests[i].attempt \in 1..MAX_RETRIES
             /\ Len(sync'.delays) \in {Len(retried), Len(retried) + 1}
             /\ \A i \in DOMAIN retried :
                   sync'.delays[i] = RETRY_DELAY_MS * (retried[i].attempt - 1)
       /\ (sync.resource = "transaction" /\ sync'.requests # sync.requests)
          => /\ sync'.errors = sync.errors
             /\ IF sync'.responses # sync.responses
                THEN sync'.pc \in {"process", "fetch"} /\ lastCall' = lastCall
                ELSE IF sync.attempt < 3
                     THEN sync'.pc = "delay" /\ lastCall' = lastCall
                     ELSE /\ sync'.pc = "done"
                          /\ lastCall'.op = "fullSync"
                          /\ lastCall'.outcome = "GatewayError"
                          /\ lastCall'.value = <<>>]_vars

\* syncTransactions got its second page at the third attempt, after delays of
\* 1000 and 2000 ms, and fullSync returned a result without errors.
C22_Witness ==
    /\ sync.pc = "done"
    /\ lastCall.op = "fullSync"
    /\ lastCall.outcome = "ok"
    /\ lastCall.value[5] = <<>>
    /\ sync.delays = <<1000, 2000>>
    /\ \E i \in DOMAIN sync.requests :
          sync.requests[i] = [resource |-> "transaction", cursor |-> 1, attempt |-> 3]
    /\ \E i \in DOMAIN sync.responses :
          sync.responses[i].resource = "transaction" /\ sync.responses[i].cursor = 1

\* C23: when processing an item of a page fails, exactly one SyncError with the
\* type of the running sync is added and the loop goes on with the next item;
\* and a fullSync that returns reports success exactly when its error list is
\* empty.
C23_ItemErrorIsolation ==
    [][/\ (/\ sync.pc = "process"
           /\ sync.idx <= Len(sync.items)
           /\ sync.items[sync.idx] = "null"
           /\ sync' # sync)
          => /\ Len(sync'.errors) = Len(sync.errors) + 1
             /\ sync'.errors[Len(sync'.errors)].type = sync.resource
             /\ sync'.synced = sync.synced
             /\ sync'.pc = "process"
             /\ sync'.idx = sync.idx + 1
       /\ (lastCall'.op = "fullSync" /\ lastCall'.outcome = "ok")
          => /\ lastCall'.value[5] = sync'.errors
             /\ lastCall'.value[1] = (sync'.errors = <<>>)]_vars

\* C24: a list call is made only when every item of the page before it has
\* been processed, with the next cursor of the previous response of that sync
\* (none for its first page) and never after a response without a next
\* cursor; and a sync loop that has ended, other than by a list call that
\* failed, has received the last page of the chain, each page once and in order.
C24_PaginationOrder ==
    [][/\ (sync'.requests # sync.requests)
          => LET got == SelectSeq(sync.responses,
                                  LAMBDA r : r.resource = sync.resource)
             IN /\ sync.idx > Len(sync.items)
                /\ sync.cursor = sync.next
                /\ (sync.attempt = 1 /\ got # <<>>) => got[Len(got)].next # 0
       /\ \A i \in 1..3 :
             LET got == SelectSeq(sync'.responses,
                                  LAMBDA r : r.resource = SyncResources[i])
                 ended == \/ ResourceIndex(sync'.resource) > i
                          \/ sync'.pc = "done" /\ lastCall'.outcome # "GatewayError"
             IN /\ \A k \in DOMAIN got :
                      /\ got[k].cursor = k - 1
                      /\ k < Len(got) => got[k].next = k
                /\ (ended /\ ResourceIndex(sync'.resource) >= i)
                   => /\ got # <<>>
                      /\ got[Len(got)].next = 0]_vars

\* C25: a processEndOfPeriodBilling call whose invoice creation fails leaves
\* currentPeriodStart and currentPeriodEnd of the subscription as they were: the
\* period changes only in a call that has stored an invoice for the subscription.
C25_NoAdvanceWithoutInvoice ==
    [][\A s \in DOMAIN subscriptions :
          ProcessEndOfPeriodBilling(s)
          => \/ /\ subscriptions'[s].currentPeriodStart = subscriptions[s].currentPeriodStart
                /\ subscriptions'[s].currentPeriodEnd = subscriptions[s].currentPeriodEnd
             \/ /\ Len(invoices') = Len(invoices) + 1
                /\ invoices'[Len(invoices')].subscriptionId = s
                /\ lastCall'.outcome = "ok"]_vars

\* Invoice creation failed for an active subscription, which still has the
\* period createSubscription gave it.
C25_Witness ==
    /\ lastCall.op = "processEndOfPeriodBilling"
    /\ lastCall.outcome = "RepositoryError: invoice create"
    /\ invoices = <<>>
    /\ lastCall.id \in DOMAIN subscriptions
    /\ subscriptions[lastCall.id].status = "active"
    /\ subscriptions[lastCall.id].currentPeriodStart = 30
    /\ subscriptions[lastCall.id].currentPeriodEnd > 30

\* C26: BillingService.retryFailedPayment on a paid invoice fails and writes
\* nothing; a call that creates a Payment or writes the invoice has had the
\* gateway pay the invoice, creates one Payment with status 'succeeded' and
\* leaves the invoice 'paid'.
C26_RetryNeedsGatewayPayment ==
    [][\A i \in DOMAIN invoices :
          BillingRetryFailedPayment(i)
          => /\ invoices[i].status = "paid"
                => /\ lastCall'.outcome # "ok"
                   /\ payments' = payments
                   /\ invoices' = invoices
             /\ (payments' # payments \/ invoices' # invoices)
                => /\ lastCall'.stripe = <<"payInvoice">>
                   /\ lastCall'.outcome = "ok"
                   /\ Len(payments') = Len(payments) + 1
                   /\ payments'[Len(payments')].status = "succeeded"
                   /\ invoices'[i].status = "paid"]_vars

\* C27: finalizeInvoice returns only for a draft invoice, which it leaves
\* 'open'; no step takes an invoice that is not a draft back to 'draft'; and
\* addLineItem, removeLineItem and updateInvoice on an invoice that is not a
\* draft fail and leave its line items, subtotal, tax, total and amountDue as
\* they were.
C27_DraftOnlyEdits ==
    [][\A i \in DOMAIN invoices :
          /\ (FinalizeInvoice(i) /\ lastCall'.outcome = "ok")
             => /\ invoices[i].status = "draft"
                /\ invoices'[i].status = "open"
          /\ invoices[i].status # "draft" => invoices'[i].status # "draft"
          /\ (/\ invoices[i].status # "draft"
              /\ \/ \E l \in LineInputs : AddLineItem(i, l)
                 \/ \E l \in 1..MaxLineItems : RemoveLineItem(i, l)
                 \/ UpdateInvoice(i))
             => /\ lastCall'.outcome # "ok"
                /\ invoices'[i].lineItems = invoices[i].lineItems
                /\ invoices'[i].subtotal = invoices[i].subtotal
                /\ invoices'[i].tax = invoices[i].tax
                /\ invoices'[i].total = invoices[i].total
                /\ invoices'[i].amountDue = invoices[i].amountDue]_vars

\* addLineItem was refused on an open invoice that still has its line item.
C27_Witness ==
    /\ lastCall.op = "addLineItem"
    /\ lastCall.outcome = "Can only add line items to draft invoices"
    /\ lastCall.id \in DOMAIN invoices
    /\ invoices[lastCall.id].status = "open"
    /\ Len(invoices[lastCall.id].lineItems) = 1

\* C28: after every step each invoice with status 'paid' has amountDue = 0,
\* and a PaymentService step that writes an invoice leaves it 'paid' exactly
\* when the amountDue it wrote is 0.
C28_PaidMeansNothingDue ==
    [][\A i \in DOMAIN invoices' :
          /\ invoices'[i].status = "paid" => invoices'[i].amountDue = 0
          /\ (/\ lastCall'.op \in {"createPayment", "confirmPayment", "capturePayment",
                                    "handleStripeWebhook"}
              /\ i \in DOMAIN invoices
              /\ invoices'[i] # invoices[i])
             => (invoices'[i].status = "paid" <=> invoices'[i].amountDue = 0)]_vars

\* createPayment paid an invoice in full: the invoice is 'paid' with nothing
\* due.
C28_Witness ==
    /\ lastCall.op = "createPayment"
    /\ lastCall.outcome = "ok"
    /\ \E p \in DOMAIN payments :
          /\ payments[p].status = "succeeded"
          /\ payments[p].invoiceId \in DOMAIN invoices
          /\ invoices[payments[p].invoiceId].status = "paid"
          /\ invoices[payments[p].invoiceId].amountDue = 0
          /\ invoices[payments[p].invoiceId].total > 0

\* C29: a refundPayment call completes successfully on a payment only while
\* the payment's status is 'succeeded', and leaves it 'partially_refunded' or
\* 'refunded', 'refunded' exactly when refundedAmount >= amount; so after one
\* successful refund no other refund succeeds on that payment until some
\* other operation sets the status back to 'succeeded'.
C29_OneRefundPerSucceeded ==
    [][(/\ lastCall'.op = "refundPayment"
        /\ lastCall'.outcome = "ok"
        /\ \/ refunds' # refunds /\ \A t \in TaskIds : tasks[t].pc = "idle"
           \/ \E t \in TaskIds : tasks[t].pc = "update" /\ tasks'[t].pc = "idle")
       => LET p == lastCall'.id
          IN /\ payments[p].status = "succeeded"
             /\ payments'[p].status \in {"partially_refunded", "refunded"}
             /\ payments'[p].status = "refunded"
                    <=> payments'[p].refundedAmount >= payments'[p].amount]_vars

\* C30: handling a webhook event, of any Stripe or Ramp type, leaves every
\* subscription (and every refund) unchanged; the only rows it can change are
\* the one payment whose stripePaymentIntentId is the event's payment-intent id
\* and the invoice that payment is linked to, and only for payment_intent
\* events; a payment_intent event that matches no payment changes nothing.
C30_WebhookTouchesOnlyMatched ==
    [][lastCall'.op \in {"handleStripeWebhook", "handleRampWebhook"}
       => LET matched == {p \in DOMAIN payments :
                             payments[p].stripePaymentIntentId = lastCall'.id}
              paymentEvent ==
                  /\ lastCall'.op = "handleStripeWebhook"
                  /\ lastCall'.arg \in {"payment_intent.succeeded",
                                        "payment_intent.payment_failed"}
          IN /\ subscriptions' = subscriptions
             /\ refunds' = refunds
             /\ DOMAIN payments' = DOMAIN payments
             /\ DOMAIN invoices' = DOMAIN invoices
             /\ \A p \in DOMAIN payments :
                   payments'[p] # payments[p] => paymentEvent /\ p \in matched
             /\ Cardinality({p \in DOMAIN payments : payments'[p] # payments[p]}) <= 1
             /\ \A i \in DOMAIN invoices :
                   invoices'[i] # invoices[i]
                   => paymentEvent /\ \E p \in matched : payments[p].invoiceId = i
             /\ matched = {} => payments' = payments /\ invoices' = invoices]_vars

\* A payment_intent.succeeded event for intent 1 was handled: payment 1 and its
\* invoice changed, while the other payment, the other invoice and the
\* subscription are as they were stored.
C30_Witness ==
    /\ lastCall.op = "handleStripeWebhook"
    /\ lastCall.arg = "payment_intent.succeeded"
    /\ lastCall.outcome = "200"
    /\ lastCall.id = 1
    /\ Len(payments) = 2
    /\ payments[1].status = "succeeded"
    /\ payments[2].status = "pending"
    /\ invoices[1].amountPaid > 0
    /\ invoices[2].amountPaid = 0
    /\ subscriptions = <<TrialSubscription(0)>>
====
